---- MODULE Spec2Model ----
(***************************************************************************)
(* mongoose-dynamic-schemas: the path validator, the path resolver and the *)
(* schema-mutating operations of the current module (the second file of    *)
(* src/unnamed/part_000, lines 320-811), over a model of the three         *)
(* collaborators the code calls: object-path (get/set/del on plain         *)
(* objects), the Mongoose Schema (tree, paths, add, remove, path) and the  *)
(* document store (update, find, save).                                    *)
(*                                                                         *)
(* A JavaScript string is a sequence of one-character strings, so that     *)
(* split, join, concatenation, includes and replace are computed, not      *)
(* assumed.  Messages that are only compared are TLA+ strings.             *)
(***************************************************************************)
EXTENDS Integers, Sequences, FiniteSets, TLC

(***************************************************************************)
(* JavaScript strings                                                      *)
(***************************************************************************)
Dot == "."

\* the positional marker the resolver inserts: ".$[]"
ArrayMarker == <<".", "$", "[", "]">>

\* the separator the resolver puts between two hops: ".$[]."
HopSeparator == <<".", "$", "[", "]", ".">>

\* the separator of the ancestor tree copies: ".0."
CopySeparator == <<".", "0", ".">>

\* String.prototype.charAt: the empty string when out of range
CharAt(s, i) == IF i + 1 \in 1..Len(s) THEN s[i + 1] ELSE ""

StartsAt(s, sub, i) ==
    /\ i >= 1
    /\ i + Len(sub) - 1 <= Len(s)
    /\ SubSeq(s, i, i + Len(sub) - 1) = sub

\* String.prototype.includes
Includes(s, sub) == \E i \in 1..(Len(s) + 1) : StartsAt(s, sub, i)

IndexOf(s, sub) ==
    CHOOSE i \in 1..(Len(s) + 1) :
        /\ StartsAt(s, sub, i)
        /\ \A j \in 1..(i - 1) : ~StartsAt(s, sub, j)

\* String.prototype.replace with a string pattern: the FIRST occurrence only
ReplaceFirst(s, sub, rep) ==
    IF ~Includes(s, sub) THEN s
    ELSE LET i == IndexOf(s, sub)
         IN  SubSeq(s, 1, i - 1) \o rep \o SubSeq(s, i + Len(sub), Len(s))

\* String.prototype.split('.')
RECURSIVE Split(_)
Split(s) ==
    IF ~Includes(s, <<Dot>>) THEN <<s>>
    ELSE LET i == IndexOf(s, <<Dot>>)
         IN  <<SubSeq(s, 1, i - 1)>> \o Split(SubSeq(s, i + 1, Len(s)))

\* Array.prototype.join(sep)
RECURSIVE Join(_, _)
Join(segs, sep) ==
    IF Len(segs) = 0 THEN <<>>
    ELSE IF Len(segs) = 1 THEN segs[1]
    ELSE segs[1] \o sep \o Join(Tail(segs), sep)

\* Array.prototype.pop: the array without its last element
Front(q) == SubSeq(q, 1, Len(q) - 1)

Last(q) == q[Len(q)]

(***************************************************************************)
(* JavaScript values: undefined, a constructor function (String, Number),  *)
(* a primitive, a plain object (a map from keys to values) and an array.   *)
(***************************************************************************)
Undef == [k |-> "undef", v |-> "", f |-> <<>>]

Fn(name) == [k |-> "fn", v |-> name, f |-> <<>>]

Val(x) == [k |-> "val", v |-> x, f |-> <<>>]

Obj(map) == [k |-> "obj", v |-> "", f |-> map]

Arr(elems) == [k |-> "arr", v |-> "", f |-> elems]

\* a TypeError raised by the evaluation
Throw == [k |-> "throw", v |-> "TypeError", f |-> <<>>]

\* an assignment of a named property to an array or to a function, which the
\* operations never perform (NoNamedArrayProperty is checked of every state)
Unmodelled == [k |-> "throw", v |-> "unmodelled", f |-> <<>>]

EmptyObj == Obj(<<>>)

MapSet(m, key, val) ==
    [x \in (DOMAIN m) \cup {key} |-> IF x = key THEN val ELSE m[x]]

MapDel(m, key) == [x \in (DOMAIN m) \ {key} |-> m[x]]

\* Object.keys(x).length; a function has no own enumerable keys
NumKeys(x) ==
    IF x.k = "obj" THEN Cardinality(DOMAIN x.f)
    ELSE IF x.k = "arr" THEN Len(x.f)
    ELSE 0

(***************************************************************************)
(* object-path                                                             *)
(***************************************************************************)
\* getKey: a key that reads as an integer is an array index
IsIndexKey(key) == key = <<"0">>

IndexOfKey(key) == 0

HasShallowProperty(o, key) ==
    \/ o.k = "obj" /\ key \in DOMAIN o.f
    \/ o.k = "arr" /\ IsIndexKey(key) /\ IndexOfKey(key) + 1 \in DOMAIN o.f

GetShallowProperty(o, key) ==
    IF o.k = "obj" /\ key \in DOMAIN o.f THEN o.f[key]
    ELSE IF o.k = "arr" /\ IsIndexKey(key) /\ IndexOfKey(key) + 1 \in DOMAIN o.f
         THEN o.f[IndexOfKey(key) + 1]
    ELSE Undef

RECURSIVE GetKeys(_, _)
GetKeys(o, keys) ==
    IF o.k = "undef" THEN Undef
    ELSE LET nextObj == GetShallowProperty(o, keys[1])
         IN  IF nextObj.k = "undef" THEN Undef
             ELSE IF Len(keys) = 1 THEN nextObj
             ELSE GetKeys(nextObj, Tail(keys))

\* objectPath.get(obj, path): an empty path returns obj itself
ObjectPathGet(o, path) ==
    IF Len(path) = 0 THEN o ELSE GetKeys(o, Split(path))

\* obj[key] = val
PutProperty(o, key, val) ==
    IF o.k = "obj" THEN Obj(MapSet(o.f, key, val))
    ELSE IF o.k = "arr" /\ IsIndexKey(key) /\ IndexOfKey(key) + 1 \in DOMAIN o.f
         THEN Arr([o.f EXCEPT ![IndexOfKey(key) + 1] = val])
    ELSE IF o.k = "arr" /\ IsIndexKey(key) /\ IndexOfKey(key) = Len(o.f)
         THEN Arr(Append(o.f, val))
    ELSE IF o.k \in {"val", "undef"} THEN Throw
    ELSE Unmodelled

RECURSIVE SetKeys(_, _, _)
SetKeys(o, keys, val) ==
    IF Len(keys) = 1 THEN PutProperty(o, keys[1], val)
    ELSE LET cur == GetShallowProperty(o, keys[1])
             child == IF cur.k = "undef"
                      THEN (IF IsIndexKey(keys[2]) THEN Arr(<<>>) ELSE EmptyObj)
                      ELSE cur
             r == SetKeys(child, Tail(keys), val)
         IN  IF o.k \notin {"obj", "arr"} THEN Throw
             ELSE IF r.k = "throw" THEN r
             ELSE PutProperty(o, keys[1], r)

\* objectPath.set(obj, path, value): the object after the assignment
ObjectPathSet(o, path, val) ==
    IF Len(path) = 0 THEN o ELSE SetKeys(o, Split(path), val)

RECURSIVE DelKeys(_, _)
DelKeys(o, keys) ==
    IF ~HasShallowProperty(o, keys[1]) THEN o
    ELSE IF Len(keys) = 1
         THEN (IF o.k = "arr"
               THEN Arr(SubSeq(o.f, 1, IndexOfKey(keys[1])) \o
                        SubSeq(o.f, IndexOfKey(keys[1]) + 2, Len(o.f)))
               ELSE Obj(MapDel(o.f, keys[1])))
         ELSE PutProperty(o, keys[1],
                          DelKeys(GetShallowProperty(o, keys[1]), Tail(keys)))

\* objectPath.del(obj, path): the object after the deletion
ObjectPathDel(o, path) ==
    IF o.k = "undef" \/ Len(path) = 0 THEN o ELSE DelKeys(o, Split(path))

(***************************************************************************)
(* The Mongoose Schema: `tree' is the plain object of the definitions and  *)
(* `paths' maps every registered dotted path to its SchemaType.  An array  *)
(* of subdocuments owns a child Schema, built from a clone of the element  *)
(* definition, so the definition of an element field is held once in the   *)
(* child's tree and once more in the tree of every enclosing Schema.  The  *)
(* automatic _id, id and __v entries take no part in the operations and    *)
(* are left out.                                                           *)
(***************************************************************************)
TypeKey == <<"t", "y", "p", "e">>

NoPath == [instance |-> "undefined", schema |-> <<>>]

EmptySchema == [tree |-> EmptyObj, paths |-> <<>>]

\* the value of a Schema operation that threw
ThrowSchema == [tree |-> Throw, paths |-> <<>>]

Threw(s) == s.tree.k = "throw"

\* obj[typeKey] is set
HasType(v) == v.k = "obj" /\ TypeKey \in DOMAIN v.f /\ v.f[TypeKey].k # "undef"

\* obj.type.type is set
TypeHasType(v) == HasType(v) /\ HasType(v.f[TypeKey])

\* the branch walk of Schema.prototype.path(path, obj): missing branches are
\* created, a branch that is not an object throws
RECURSIVE TreeSetPath(_, _, _)
TreeSetPath(branch, subpaths, def) ==
    IF Len(subpaths) = 1 THEN PutProperty(branch, subpaths[1], def)
    ELSE LET cur == GetShallowProperty(branch, subpaths[1])
             next == IF cur.k = "undef" THEN EmptyObj ELSE cur
         IN  IF next.k \notin {"obj", "arr"} THEN Throw
             ELSE LET r == TreeSetPath(next, Tail(subpaths), def)
                  IN  IF r.k = "throw" THEN r
                      ELSE PutProperty(branch, subpaths[1], r)

RECURSIVE interpretAsType(_), SchemaAddKeys(_, _, _, _)

\* Schema.prototype.path(path, obj): the setter
SchemaPathSet(s, path, def) ==
    LET t == TreeSetPath(s.tree, Split(path), def)
    IN  IF t.k = "throw" THEN [tree |-> t, paths |-> s.paths]
        ELSE [tree |-> t, paths |-> MapSet(s.paths, path, interpretAsType(def))]

\* Schema.prototype.add(obj, prefix), one key after the other
SchemaAddKeys(s, obj, prefix, keys) ==
    IF keys = {} \/ Threw(s) THEN s
    ELSE LET key == CHOOSE x \in keys : TRUE
             val == obj.f[key]
             s1 == IF val.k = "undef" THEN ThrowSchema
                   ELSE IF val.k = "obj" /\ (~HasType(val) \/ TypeHasType(val))
                             /\ NumKeys(val) > 0
                        THEN SchemaAddKeys(s, val, prefix \o key \o <<Dot>>,
                                           DOMAIN val.f)
                   ELSE SchemaPathSet(s, prefix \o key, val)
         IN  SchemaAddKeys(s1, obj, prefix, keys \ {key})

SchemaAdd(s, obj) == SchemaAddKeys(s, obj, <<>>, DOMAIN obj.f)

\* new Schema(obj)
NewSchema(obj) == SchemaAdd(EmptySchema, obj)

\* Schema.prototype.interpretAsType: the instance name and, for an array of
\* subdocuments, the child Schema
interpretAsType(def) ==
    LET obj == IF def.k = "obj" THEN def ELSE Obj(MapSet(<<>>, TypeKey, def))
        type == IF HasType(obj) /\ ~TypeHasType(obj) THEN obj.f[TypeKey]
                ELSE EmptyObj
    IN  IF type.k = "arr"
        THEN LET cast == IF Len(type.f) > 0 THEN type.f[1] ELSE Undef
             IN  IF cast.k = "obj" /\ (~HasType(cast) \/ TypeHasType(cast))
                       /\ NumKeys(cast) > 0
                 THEN [instance |-> "Array", schema |-> <<NewSchema(cast)>>]
                 ELSE [instance |-> "Array", schema |-> <<>>]
        ELSE IF type.k = "fn" THEN [instance |-> type.v, schema |-> <<>>]
        ELSE [instance |-> "Mixed", schema |-> <<>>]

\* Schema.prototype.path(path): the getter
SchemaPath(s, path) ==
    IF path \in DOMAIN s.paths THEN s.paths[path] ELSE NoPath

\* the branch walk of Schema.prototype.remove
RECURSIVE TreeRemove(_, _)
TreeRemove(branch, pieces) ==
    IF branch.k \notin {"obj", "arr"} THEN Throw
    ELSE IF Len(pieces) = 1
         THEN (IF branch.k = "obj" THEN Obj(MapDel(branch.f, pieces[1]))
               ELSE branch)
    ELSE LET r == TreeRemove(GetShallowProperty(branch, pieces[1]), Tail(pieces))
         IN  IF r.k = "throw" THEN r ELSE PutProperty(branch, pieces[1], r)

\* Schema.prototype.remove(path): acts only on a registered path
SchemaRemove(s, path) ==
    IF SchemaPath(s, path) = NoPath THEN s
    ELSE [tree |-> TreeRemove(s.tree, Split(path)),
          paths |-> MapDel(s.paths, path)]

\* the Schema object a reference denotes: the child reached from the root
\* through the array fields of `ref'
RECURSIVE SchemaAt(_, _)
SchemaAt(root, ref) ==
    IF Len(ref) = 0 THEN root
    ELSE SchemaAt(root.paths[ref[1]].schema[1], Tail(ref))

\* the root after the Schema object that `ref' denotes became `s'
RECURSIVE SchemaPut(_, _, _)
SchemaPut(root, ref, s) ==
    IF Len(ref) = 0 THEN s
    ELSE [root EXCEPT !.paths[ref[1]].schema =
              <<SchemaPut(root.paths[ref[1]].schema[1], Tail(ref), s)>>]

(***************************************************************************)
(* Utilities of the module                                                 *)
(***************************************************************************)
\* pathIsValid reading one character past the end of the path
pathIsValidPastTheEnd(path) ==
    ~(\/ CharAt(path, 0) = Dot
      \/ CharAt(path, Len(path)) = Dot
      \/ Includes(path, <<Dot, Dot>>)
      \/ Includes(path, <<"$">>))

pathIsValid(path) ==
    ~(\/ CharAt(path, 0) = Dot
      \/ CharAt(path, Len(path) - 1) = Dot
      \/ Includes(path, <<Dot, Dot>>)
      \/ Includes(path, <<"$">>))

\* the while loop of getLastSchemaAndPathsRecursive: the index and the
\* accumulated path at its exit
RECURSIVE AccumulatePath(_, _, _, _)
AccumulatePath(currentSchema, path, currentPathIndex, currentPath) ==
    IF SchemaPath(currentSchema, currentPath).instance # "Array"
    THEN IF currentPathIndex + 1 = Len(path)
         THEN [index |-> currentPathIndex + 1, path |-> currentPath]
         ELSE AccumulatePath(currentSchema, path, currentPathIndex + 1,
                             currentPath \o <<Dot>> \o path[currentPathIndex + 2])
    ELSE [index |-> currentPathIndex, path |-> currentPath]

\* the full path that forgets the hops before the current one
NextFullPathOfLastHop(currentFullPath, currentPath) == currentPath

\* the full path after one more hop (the argument of the recursive call and
\* the fullPath of the result)
NextFullPath(currentFullPath, currentPath) ==
    IF currentFullPath = <<>> THEN currentPath
    ELSE currentFullPath \o HopSeparator \o currentPath

\* an `exists' that asks the registered paths of the Schema instead of its
\* tree
ExistsAsRegisteredPath(currentSchema, currentPath) ==
    SchemaPath(currentSchema, currentPath) # NoPath

\* the `exists' of the result: objectPath.get(currentSchema.tree, currentPath)
\* is not undefined
ExistsInTree(currentSchema, currentPath) ==
    ObjectPathGet(currentSchema.tree, currentPath) # Undef

\* the result of a resolution that threw (the .schema of an array without a
\* child Schema is undefined)
ResolveThrew ==
    [ok |-> FALSE, exists |-> FALSE, schema |-> EmptySchema, ref |-> <<>>,
     path |-> <<>>, fullPath |-> <<>>, pathToLast |-> <<>>, subPaths |-> <<>>]

\* `ref' stands for the reference to currentSchema: the array fields through
\* which it is reached from the root
RECURSIVE getLastSchemaAndPathsRecursive(_, _, _, _, _, _)
getLastSchemaAndPathsRecursive(currentSchema, ref, path, currentPathIndex, currentFullPath, subPaths) ==
    LET acc == AccumulatePath(currentSchema, path, currentPathIndex,
                              path[currentPathIndex + 1])
        currentPath == acc.path
        type == SchemaPath(currentSchema, currentPath)
    IN  IF type.instance = "Array" /\ acc.index < Len(path) - 1
        THEN IF type.schema = <<>> THEN ResolveThrew
             ELSE getLastSchemaAndPathsRecursive(
                      type.schema[1], Append(ref, currentPath), path,
                      acc.index + 1,
                      NextFullPath(currentFullPath, currentPath),
                      Append(subPaths, currentPath))
        ELSE [ok |-> TRUE,
              exists |-> ExistsInTree(currentSchema, currentPath),
              schema |-> currentSchema,
              ref |-> ref,
              path |-> currentPath,
              fullPath |-> NextFullPath(currentFullPath, currentPath),
              pathToLast |-> ReplaceFirst(currentFullPath, ArrayMarker, <<>>),
              subPaths |-> Append(subPaths, currentPath)]

getLastSchemaAndPaths(schema, path) ==
    getLastSchemaAndPathsRecursive(schema, <<>>, Split(path), 0, <<>>, <<>>)

(***************************************************************************)
(* The document store.  A document is a plain object.  A bulk update takes *)
(* the filter { <filterPath>: { $gt: [] } } (or {} when filterPath is      *)
(* empty) and one $unset or $set of a path whose "$[]" segments stand for  *)
(* every element of the array before them.                                 *)
(***************************************************************************)
AllPositional == <<"$", "[", "]">>

\* the values a query path reaches in a document: the path goes through every
\* element of an array it meets
RECURSIVE QueryValues(_, _)
QueryValues(val, segs) ==
    IF Len(segs) = 0 THEN {val}
    ELSE IF val.k = "arr"
         THEN UNION {QueryValues(val.f[i], segs) : i \in DOMAIN val.f}
    ELSE IF val.k = "obj" /\ segs[1] \in DOMAIN val.f
         THEN QueryValues(val.f[segs[1]], Tail(segs))
    ELSE {}

\* { path: { $gt: [] } }: the path reaches an array that is not empty
MatchesFilter(doc, filterPath) ==
    \/ filterPath = <<>>
    \/ \E x \in QueryValues(doc, Split(filterPath)) : x.k = "arr" /\ Len(x.f) > 0

\* $unset (val = Undef) or $set of the path `segs' in one value; Throw when a
\* "$[]" segment meets a value that is not an array or that is missing
RECURSIVE UpdateValue(_, _, _)
UpdateValue(cur, segs, val) ==
    IF segs[1] = AllPositional
    THEN IF cur.k # "arr" \/ Len(segs) = 1 THEN Throw
         ELSE LET elems == [i \in DOMAIN cur.f |->
                               UpdateValue(cur.f[i], Tail(segs), val)]
              IN  IF \E i \in DOMAIN elems : elems[i].k = "throw" THEN Throw
                  ELSE Arr(elems)
    ELSE IF cur.k # "obj" THEN (IF val.k = "undef" THEN cur ELSE Throw)
    ELSE IF Len(segs) = 1
         THEN (IF val.k = "undef" THEN Obj(MapDel(cur.f, segs[1]))
               ELSE Obj(MapSet(cur.f, segs[1], val)))
    ELSE LET present == segs[1] \in DOMAIN cur.f
             next == IF present THEN cur.f[segs[1]] ELSE EmptyObj
         IN  IF ~present /\ segs[2] = AllPositional THEN Throw
             ELSE IF ~present /\ val.k = "undef" THEN cur
             ELSE LET r == UpdateValue(next, Tail(segs), val)
                  IN  IF r.k = "throw" THEN r
                      ELSE Obj(MapSet(cur.f, segs[1], r))

\* model.update(filter, update, { multi: true }): the collection afterwards
UpdateMany(collection, filterPath, updatePath, val) ==
    [i \in DOMAIN collection |->
        IF MatchesFilter(collection[i], filterPath)
        THEN UpdateValue(collection[i], Split(updatePath), val)
        ELSE collection[i]]

UpdateFails(collection, filterPath, updatePath, val) ==
    \E i \in DOMAIN collection :
        UpdateMany(collection, filterPath, updatePath, val)[i].k = "throw"

DefaultKey == <<"d", "e", "f", "a", "u", "l", "t">>

\* the document as model.find hands it over: the declared defaults of the
\* Schema are applied to the fields the stored document misses, in the
\* elements of the arrays of subdocuments too
RECURSIVE Hydrate(_, _), HydratePaths(_, _, _)
HydratePaths(s, data, todo) ==
    IF todo = {} THEN data
    ELSE LET p == CHOOSE x \in todo : TRUE
             def == ObjectPathGet(s.tree, p)
             cur == ObjectPathGet(data, p)
             d1 == IF s.paths[p].schema # <<>>
                   THEN (IF cur.k = "arr"
                         THEN ObjectPathSet(data, p,
                                  Arr([i \in DOMAIN cur.f |->
                                         Hydrate(s.paths[p].schema[1], cur.f[i])]))
                         ELSE data)
                   ELSE IF cur.k = "undef" /\ def.k = "obj"
                           /\ DefaultKey \in DOMAIN def.f
                        THEN ObjectPathSet(data, p, def.f[DefaultKey])
                   ELSE data
         IN  HydratePaths(s, IF d1.k = "throw" THEN data ELSE d1, todo \ {p})

Hydrate(s, data) == HydratePaths(s, data, DOMAIN s.paths)

\* what doc.save() writes after doc.markModified(path): the defaults applied
\* to the fields of the document itself and the value of the marked path
SaveWrites(s, stored, path) ==
    LET doc == Hydrate(s, stored)
    IN  {[path |-> p, val |-> ObjectPathGet(doc, p)] :
            p \in {q \in DOMAIN s.paths :
                      /\ s.paths[q].schema = <<>>
                      /\ ObjectPathGet(stored, q).k = "undef"
                      /\ ObjectPathGet(doc, q).k # "undef"}}
        \cup (IF ObjectPathGet(doc, path).k = "undef" \/ Len(path) = 0 THEN {}
              ELSE {[path |-> path, val |-> ObjectPathGet(doc, path)]})

RECURSIVE ApplyWrites(_, _)
ApplyWrites(stored, writes) ==
    IF writes = {} THEN stored
    ELSE LET w == CHOOSE x \in writes : TRUE
             r == ObjectPathSet(stored, w.path, w.val)
         IN  ApplyWrites(IF r.k = "throw" THEN stored ELSE r, writes \ {w})

(***************************************************************************)
(* Promises.  Every function of the module returns a promise; its executor *)
(* and each of its callbacks run to completion.  `stack' holds the calls   *)
(* whose promise is pending, the innermost last; a settled promise is      *)
(* handed to the callbacks of its caller through `ret'.  The operators     *)
(* below take and return the record m of the mutable state.                *)
(***************************************************************************)
NoRet == [st |-> "none", msg |-> "", arg |-> <<>>]

Resolved(msg) == [st |-> "ok", msg |-> msg, arg |-> <<>>]

Rejected(msg, arg) == [st |-> "err", msg |-> msg, arg |-> arg]

Frame(fn, pc, path, def, cascade) ==
    [fn |-> fn, pc |-> pc, path |-> path, def |-> def, cascade |-> cascade,
     lsp |-> ResolveThrew, numToSave |-> 0, numSaved |-> 0]

Top(m) == m.stack[Len(m.stack)]

Push(m, f) == [m EXCEPT !.stack = Append(@, f)]

SetTop(m, f) == [m EXCEPT !.stack[Len(m.stack)] = f]

\* the innermost promise settles: its call is over, its caller is told
Settle(m, r) == [m EXCEPT !.stack = Front(@), !.ret = r]

\* updateDefaults: the executor issues model.find({}, callback)
updateDefaults(m, path) ==
    [Push(m, Frame("updateDefaults", "find", path, Undef, FALSE))
        EXCEPT !.issued = @ + 1]

\* a loop that sets the definition in the root tree only
SetInRootTree(root, ref, subPaths, def) ==
    IF Len(subPaths) <= 1
    THEN [schema |-> root, threw |-> FALSE, subPaths |-> subPaths]
    ELSE LET t == ObjectPathSet(root.tree, Join(subPaths, CopySeparator), def)
         IN  IF t.k = "throw"
             THEN [schema |-> root, threw |-> TRUE, subPaths |-> subPaths]
             ELSE [schema |-> [root EXCEPT !.tree = t], threw |-> FALSE,
                   subPaths |-> <<Last(subPaths)>>]

\* the loop of addSchemaAux over the array schema trees; it shifts subPaths
RECURSIVE SetInArrayTrees(_, _, _, _)
SetInArrayTrees(root, ref, subPaths, def) ==
    IF Len(subPaths) <= 1
    THEN [schema |-> root, threw |-> FALSE, subPaths |-> subPaths]
    ELSE LET currentSchema == SchemaAt(root, ref)
             t == ObjectPathSet(currentSchema.tree,
                                Join(subPaths, CopySeparator), def)
         IN  IF t.k = "throw"
             THEN [schema |-> root, threw |-> TRUE, subPaths |-> subPaths]
             ELSE SetInArrayTrees(
                      SchemaPut(root, ref, [currentSchema EXCEPT !.tree = t]),
                      Append(ref, subPaths[1]), Tail(subPaths), def)

addSchemaAux(m, lsp, fieldDefinition) ==
    LET m1 == Push(m, Frame("addSchemaAux", "updateDefaults", lsp.path,
                            fieldDefinition, FALSE))
        addQuery == ObjectPathSet(EmptyObj, lsp.path, fieldDefinition)
        added == SchemaAdd(SchemaAt(m.schema, lsp.ref), addQuery)
        loop == SetInArrayTrees(SchemaPut(m.schema, lsp.ref, added), <<>>,
                                lsp.subPaths, fieldDefinition)
    IN  IF Threw(added) THEN Settle(m1, Rejected("Error", <<>>))
        ELSE IF loop.threw
             THEN Settle([m1 EXCEPT !.schema = loop.schema],
                         Rejected("TypeError", <<>>))
        ELSE updateDefaults([m1 EXCEPT !.schema = loop.schema],
                            loop.subPaths[1])

\* a test of line 419 that lets every resolved path through
FieldMissingNever(lastSchemaAndPaths) == FALSE

\* the test of line 419: the path does not point to an existing field
FieldMissing(lastSchemaAndPaths) == ~lastSchemaAndPaths.exists

\* the executor of removeSchemaField, up to model.update(...)
removeSchemaField(m, path, removeSubdocumentIfEmpty) ==
    LET m1 == Push(m, Frame("removeSchemaField", "update", path, Undef,
                            removeSubdocumentIfEmpty))
        lastSchemaAndPaths == getLastSchemaAndPaths(m.schema, path)
    IN  IF ~pathIsValid(path)
        THEN Settle(m1, Rejected("The path is not valid", <<>>))
        ELSE IF ~lastSchemaAndPaths.ok
             THEN Settle(m1, Rejected("TypeError", <<>>))
        ELSE IF FieldMissing(lastSchemaAndPaths)
             THEN Settle(m1, Rejected("The field to remove does not exists", path))
        ELSE [SetTop(m1, [Top(m1) EXCEPT !.lsp = lastSchemaAndPaths])
                 EXCEPT !.issued = @ + 1]

\* the loop of removeSchemaField over the array schema trees
RECURSIVE DelInArrayTrees(_, _, _)
DelInArrayTrees(root, ref, subPaths) ==
    IF Len(subPaths) <= 1 THEN root
    ELSE LET currentSchema == SchemaAt(root, ref)
             t == ObjectPathDel(currentSchema.tree, Join(subPaths, CopySeparator))
         IN  DelInArrayTrees(
                 SchemaPut(root, ref, [currentSchema EXCEPT !.tree = t]),
                 Append(ref, subPaths[1]), Tail(subPaths))

\* a cascade that goes on to the enclosing array when the field was the only
\* one of the element subdocument
CascadeTargetAcrossArrays(lsp) ==
    LET lastPathArray == Front(Split(lsp.path))
        parent == Join(lastPathArray, <<Dot>>)
    IN  IF Len(lastPathArray) = 0 THEN Join(Front(lsp.subPaths), <<Dot>>)
        ELSE IF lsp.pathToLast = <<>> THEN parent
        ELSE lsp.pathToLast \o <<Dot>> \o parent

\* lines 446-455: the path of the parent subdocument the cascade looks at, and
\* no path when the field is at the top of its owner tree
\* (lastPathArray.length > 1 fails)
CascadeTarget(lsp) ==
    LET lastPathArray == Front(Split(lsp.path))
        parent == Join(lastPathArray, <<Dot>>)
    IN  IF Len(lastPathArray) = 0 THEN <<>>
        ELSE IF lsp.pathToLast = <<>> THEN parent
        ELSE lsp.pathToLast \o <<Dot>> \o parent

\* a test of line 443 that always takes the cascade branch
CascadeRequestedAlways(f) == TRUE

\* the test of line 443: if (removeSubdocumentIfEmpty)
CascadeRequested(f) == f.cascade

\* the callback of removeSchemaField that runs when model.update succeeded
removeSchemaFieldThen(m) ==
    LET lsp == Top(m).lsp
        s1 == SchemaRemove(m.schema, lsp.fullPath)
        owner1 == SchemaRemove(SchemaAt(s1, lsp.ref), lsp.path)
        s2 == SchemaPut(s1, lsp.ref, owner1)
        s3 == DelInArrayTrees(s2, <<>>, lsp.subPaths)
        owner3 == SchemaAt(s3, lsp.ref)
        s4 == SchemaPut(s3, lsp.ref,
                        [owner3 EXCEPT !.tree = ObjectPathDel(@, lsp.path)])
        lastPathArray == Front(Split(lsp.path))
        parent == ObjectPathGet(SchemaAt(s4, lsp.ref).tree,
                                Join(lastPathArray, <<Dot>>))
        done == Resolved("Field removed successfully")
    IN  IF Threw(s1) THEN Settle(m, Rejected("TypeError", <<>>))
        ELSE IF Threw(owner1)
             THEN Settle([m EXCEPT !.schema = s1], Rejected("TypeError", <<>>))
        ELSE IF ~CascadeRequested(Top(m)) THEN Settle([m EXCEPT !.schema = s3], done)
        ELSE IF CascadeTarget(lsp) = <<>> THEN Settle([m EXCEPT !.schema = s4], done)
        ELSE IF parent.k = "undef"
             THEN Settle([m EXCEPT !.schema = s4], Rejected("TypeError", <<>>))
        ELSE IF NumKeys(parent) = 0
             THEN removeSchemaField(
                      SetTop([m EXCEPT !.schema = s4],
                             [Top(m) EXCEPT !.pc = "cascade"]),
                      CascadeTarget(lsp), FALSE)
        ELSE Settle([m EXCEPT !.schema = s4], done)

\* previousField is an empty subdocument, or its type has no keys
IsEmptySubdocument(previousField) ==
    /\ previousField.k # "undef"
    /\ \/ NumKeys(previousField) = 0
       \/ /\ HasType(previousField)
          /\ NumKeys(previousField.f[TypeKey]) = 0

\* the executor of addSchemaField
addSchemaField(m, path, fieldDefinition) ==
    LET m1 == Push(m, Frame("addSchemaField", "addSchemaAux", path,
                            fieldDefinition, FALSE))
        lastSchemaAndPaths == getLastSchemaAndPaths(m.schema, path)
        lastPaths == Front(Split(lastSchemaAndPaths.path))
        previousField == ObjectPathGet(lastSchemaAndPaths.schema.tree,
                                       Join(lastPaths, <<Dot>>))
    IN  IF ~pathIsValid(path)
        THEN Settle(m1, Rejected("The path is not valid", <<>>))
        ELSE IF ~lastSchemaAndPaths.ok
             THEN Settle(m1, Rejected("TypeError", <<>>))
        ELSE IF lastSchemaAndPaths.exists
             THEN Settle(m1, Rejected("The field to add already exists", path))
        ELSE IF Len(lastPaths) > 0 /\ IsEmptySubdocument(previousField)
             THEN removeSchemaField(
                      SetTop(m1, [Top(m1) EXCEPT !.pc = "removeSchemaField",
                                                 !.lsp = lastSchemaAndPaths]),
                      \* string + array: the array is joined with ","
                      lastSchemaAndPaths.pathToLast \o Join(lastPaths, <<",">>),
                      FALSE)
        ELSE addSchemaAux(SetTop(m1, [Top(m1) EXCEPT !.lsp = lastSchemaAndPaths]),
                          lastSchemaAndPaths, fieldDefinition)

\* the executor of moveSchemaField.  Line 488 tests pathIsValid(path), and no
\* `path' is declared in moveSchemaField or in the module (strict mode): its
\* evaluation throws a ReferenceError, the executor ends there and the promise
\* is rejected.  Lines 491-546 are never reached.
moveSchemaField(m, origin, dest, removeSubdocumentIfEmpty) ==
    LET m1 == Push(m, Frame("moveSchemaField", "start", origin, Undef,
                            removeSubdocumentIfEmpty))
    IN  IF ~pathIsValid(origin)
        THEN Settle(m1, Rejected("The origin path is not valid", <<>>))
        ELSE Settle(m1, Rejected("ReferenceError", <<"p", "a", "t", "h">>))

\* resolve or reject called while the executor goes on: the promise of the
\* public call is settled, the code after it still runs
SettleEarly(m, r) == IF m.outcome.st = "none" THEN [m EXCEPT !.outcome = r] ELSE m

\* the executor of changeFieldDefinition: line 567 rejects and does not return
changeFieldDefinition(m, path, newDefinition) ==
    LET m1 == Push(m, Frame("changeFieldDefinition", "removeSchemaField", path,
                            newDefinition, FALSE))
        lastSchemaAndPaths == getLastSchemaAndPaths(m.schema, path)
        m2 == IF lastSchemaAndPaths.exists THEN m1
              ELSE SettleEarly(m1,
                       Rejected("The path does not point to an existing field", path))
    IN  IF ~pathIsValid(path)
        THEN Settle(m1, Rejected("The path is not valid", <<>>))
        ELSE IF ~lastSchemaAndPaths.ok
             THEN Settle(m1, Rejected("TypeError", <<>>))
        ELSE removeSchemaField(
                 SetTop(m2, [Top(m2) EXCEPT !.lsp = lastSchemaAndPaths]),
                 path, FALSE)

RequiredKey == <<"r", "e", "q", "u", "i", "r", "e", "d">>

\* lines 613-623 of changeFieldType with a default that is never deleted
RevisedDefinitionKeepingDefault(fieldDefinitionSuper, newType, defaultValue, required) ==
    IF fieldDefinitionSuper.k # "obj" THEN Unmodelled
    ELSE LET typed == MapSet(fieldDefinitionSuper.f, TypeKey, newType)
             defaulted == IF defaultValue.k # "undef"
                          THEN MapSet(typed, DefaultKey, defaultValue)
                          ELSE typed
         IN  Obj(IF required THEN MapSet(defaulted, RequiredKey, Val("true"))
                 ELSE MapDel(defaulted, RequiredKey))

\* lines 613-623 of changeFieldType: the node of the field with its new type,
\* default and required
RevisedDefinition(fieldDefinitionSuper, newType, defaultValue, required) ==
    IF fieldDefinitionSuper.k # "obj" THEN Unmodelled
    ELSE LET typed == MapSet(fieldDefinitionSuper.f, TypeKey, newType)
             defaulted == IF defaultValue.k # "undef"
                          THEN MapSet(typed, DefaultKey, defaultValue)
                          ELSE MapDel(typed, DefaultKey)
         IN  Obj(IF required THEN MapSet(defaulted, RequiredKey, Val("true"))
                 ELSE MapDel(defaulted, RequiredKey))

\* the executor of changeFieldType.  Line 605 rejects and does not return:
\* the node read at line 610 is then undefined and line 614 throws a
\* TypeError, which the settled promise ignores.  Line 645 resolves while the
\* store call of line 636 or 640 is still pending.
changeFieldType(m, path, newType, defaultValue, required, keepValues) ==
    LET m1 == Push(m, Frame("changeFieldType", "update", path, defaultValue, FALSE))
        lsp == getLastSchemaAndPaths(m.schema, path)
        owner == SchemaAt(m.schema, lsp.ref)
        fieldDefinitionSuper ==
            RevisedDefinition(ObjectPathGet(owner.tree, lsp.path), newType,
                              defaultValue, required)
        fieldDefinition == ObjectPathSet(EmptyObj, lsp.path, fieldDefinitionSuper)
        \* the node of the tree is the object the assignments change
        mutated == [owner EXCEPT !.tree = ObjectPathSet(@, lsp.path,
                                                        fieldDefinitionSuper)]
        removed == SchemaRemove(mutated, lsp.path)
        added == SchemaAdd(removed, fieldDefinition)
        m2 == SetTop(m1, [Top(m1) EXCEPT !.lsp = lsp])
        done == Resolved("Field type changed")
    IN  IF ~pathIsValid(path)
        THEN Settle(m1, Rejected("The path is not valid", <<>>))
        ELSE IF ~lsp.ok THEN Settle(m1, Rejected("TypeError", <<>>))
        ELSE IF ~lsp.exists
             THEN Settle(m1, Rejected("The path does not point to an existing field",
                                      path))
        ELSE IF fieldDefinitionSuper.k = "throw"
             THEN Settle(m1, Rejected("unmodelled", <<>>))
        ELSE IF Threw(removed)
             THEN Settle([m1 EXCEPT !.schema = SchemaPut(m.schema, lsp.ref, mutated)],
                         Rejected("TypeError", <<>>))
        ELSE IF Threw(added)
             THEN Settle([m1 EXCEPT !.schema = SchemaPut(m.schema, lsp.ref, removed)],
                         Rejected("Error", <<>>))
        ELSE LET m3 == [m2 EXCEPT !.schema = SchemaPut(m.schema, lsp.ref, added)]
             IN  IF ~keepValues
                 THEN SettleEarly([m3 EXCEPT !.issued = @ + 1], done)
                 ELSE SettleEarly(
                          updateDefaults(
                              SetTop(m3, [Top(m3) EXCEPT !.pc = "updateDefaults"]),
                              lsp.subPaths[1]),
                          done)

\* the callbacks a settled promise runs in its caller
Deliver(m) ==
    LET f == Top(m)
        r == m.ret
        m0 == [m EXCEPT !.ret = NoRet]
    IN  IF f.fn = "addSchemaField" /\ f.pc = "removeSchemaField"
        THEN (IF r.st = "ok"
              THEN addSchemaAux(SetTop(m0, [f EXCEPT !.pc = "addSchemaAux"]),
                                f.lsp, f.def)
              ELSE Settle(m0, r))
        ELSE IF f.fn = "addSchemaField"
        THEN (IF r.st = "ok"
              THEN Settle(m0, Resolved("Field added successfully"))
              ELSE Settle(m0, r))
        ELSE IF f.fn = "addSchemaAux"
        THEN (IF r.st = "ok" THEN Settle(m0, Resolved("")) ELSE Settle(m0, r))
        ELSE IF f.fn = "removeSchemaField" /\ f.pc = "cascade"
        THEN (IF r.st = "ok"
              THEN Settle(m0, Resolved("Field removed successfully"))
              \* line 456 has no catch: the promise stays pending
              ELSE SetTop(m0, [f EXCEPT !.pc = "pending"]))
        ELSE IF f.fn = "changeFieldDefinition" /\ f.pc = "removeSchemaField"
        THEN (IF r.st = "ok"
              THEN addSchemaField(SetTop(m0, [f EXCEPT !.pc = "addSchemaField"]),
                                  f.path, f.def)
              ELSE Settle(m0, r))
        ELSE IF f.fn = "changeFieldDefinition" /\ f.pc = "addSchemaField"
        THEN (IF r.st = "ok"
              THEN updateDefaults(SetTop(m0, [f EXCEPT !.pc = "updateDefaults"]),
                                  f.lsp.subPaths[1])
              ELSE Settle(m0, r))
        ELSE IF f.fn = "changeFieldDefinition"
        THEN (IF r.st = "ok"
              THEN Settle(m0, Resolved("Field definition modified"))
              ELSE Settle(m0, r))
        ELSE IF f.fn = "changeFieldType"
        THEN (IF r.st = "ok"
              THEN Settle(m0, Resolved("Field type changed"))
              ELSE Settle(m0, r))
        ELSE m0

(***************************************************************************)
(* The model: one collection, its Schema, and a caller that starts the     *)
(* next operation when the promise of the previous one is no longer        *)
(* running callbacks.                                                      *)
(***************************************************************************)
VARIABLES
    schema,     \* model.schema: the root Schema
    docs,       \* the stored documents of the collection
    stack,      \* the calls whose promise is pending
    ret,        \* the settled promise whose callbacks are about to run
    saves,      \* the doc.save() calls the store has not answered
    issued,     \* the store calls issued since the last public call
    outcome,    \* how the promise of the last public call settled
    faulted,    \* a store call of the last public call answered with an error
    call,       \* the last public call and the state it started from
    prev,       \* the public call before it, and how its promise settled
    nops,       \* the number of public calls so far
    pure        \* the argument and the result of a utility called directly

vars == <<schema, docs, stack, ret, saves, issued, outcome, faulted, call, prev,
         nops, pure>>

\* bounds of the model
MaxOps == 2

MaxDocs == 2

MaxPathLen == 4

MaxSegments == 4

K(c) == <<c>>

\* { type: String }
Leaf == Obj(TypeKey :> Fn("String"))

\* { type: Number, default: 5 }
NumberWithDefault == Obj((TypeKey :> Fn("Number")) @@ (DefaultKey :> Val("5")))

\* { type: String, default: "d" }
StringWithDefault == Obj((TypeKey :> Fn("String")) @@ (DefaultKey :> Val("d")))

\* { type: Number, default: 5, min: 0 }
MinKey == <<"m", "i", "n">>

NumberWithMin ==
    Obj((TypeKey :> Fn("Number")) @@ (DefaultKey :> Val("5")) @@ (MinKey :> Val("0")))

\* { y: { type: String } }
Subdocument == Obj(K("y") :> Leaf)

\* the definition the collection was declared with:
\*   { n: {type: String}, s: { t: {type: String} }, m: {}, p: [String],
\*     q: {type: Number, default: 5, min: 0}, u: { v: { w: {type: String} } },
\*     g: [{ h: {type: String} }], o: { k: {} }, r: [{ k: {} }],
\*     a: [{ b: {type: String},
\*           c: [{ d: {type: String}, e: [{ f: {type: String} }] }] }] }
DeclaredDefinition ==
    Obj((K("n") :> Leaf) @@ (K("s") :> Obj(K("t") :> Leaf)) @@
        (K("m") :> EmptyObj) @@ (K("p") :> Arr(<<Fn("String")>>)) @@
        (K("q") :> NumberWithMin) @@ (K("g") :> Arr(<<Obj(K("h") :> Leaf)>>)) @@
        (K("u") :> Obj(K("v") :> Obj(K("w") :> Leaf))) @@
        (K("o") :> Obj(K("k") :> EmptyObj)) @@
        (K("r") :> Arr(<<Obj(K("k") :> EmptyObj)>>)) @@
        (K("a") :> Arr(<<Obj(
            (K("b") :> Leaf) @@
            (K("c") :> Arr(<<Obj(
                (K("d") :> Leaf) @@
                (K("e") :> Arr(<<Obj(K("f") :> Leaf)>>)))>>)))>>)))

\* documents saved through the model before the operations start
FullDocument ==
    Obj((K("n") :> Val("n1")) @@ (K("s") :> Obj(K("t") :> Val("t1"))) @@
        (K("p") :> Arr(<<>>)) @@ (K("q") :> Val("1")) @@
        (K("g") :> Arr(<<Obj(K("h") :> Val("h1"))>>)) @@
        (K("u") :> Obj(K("v") :> Obj(K("w") :> Val("w1")))) @@
        (K("a") :> Arr(<<
            Obj((K("b") :> Val("b1")) @@
                (K("c") :> Arr(<<Obj(
                    (K("d") :> Val("d1")) @@
                    (K("e") :> Arr(<<Obj(K("f") :> Val("f1"))>>)))>>))),
            Obj((K("b") :> Val("b2")) @@ (K("c") :> Arr(<<>>)))>>)))

SparseDocument ==
    Obj((K("n") :> Val("n2")) @@ (K("p") :> Arr(<<>>)) @@ (K("g") :> Arr(<<>>)) @@
        (K("a") :> Arr(<<>>)))

Document(i) == IF i % 2 = 1 THEN FullDocument ELSE SparseDocument

Collection(n) == [i \in 1..n |-> Document(i)]

\* the arguments of the public calls
AddArgs ==
    {[path |-> p, def |-> Leaf] :
        p \in {<<"x">>, <<"x", ".", "y">>, <<"m", ".", "x">>,
               <<"n", ".", "x">>, <<"a", ".", "x">>,
               <<"a", ".", "c", ".", "e", ".", "x">>,
               <<"a", ".", "b">>, <<".", "n">>, <<"o", ".", "k", ".", "x">>,
               <<"r", ".", "k", ".", "x">>}}
    \cup {[path |-> <<"x">>, def |-> Subdocument],
          [path |-> <<"a", ".", "x">>, def |-> Subdocument],
          [path |-> <<"a", ".", "c", ".", "x">>, def |-> NumberWithDefault]}

RemoveArgs ==
    {[path |-> p, cascade |-> FALSE] :
        p \in {<<"n">>, <<"s">>, <<"a", ".", "b">>,
               <<"a", ".", "c", ".", "e", ".", "f">>,
               <<"x">>, <<"x", ".", "y">>, <<"a", ".", "x">>,
               <<"a", ".", "x", ".", "y">>, <<"z">>, <<"n", ".">>}}
    \cup {[path |-> p, cascade |-> TRUE] :
             p \in {<<"s", ".", "t">>, <<"a", ".", "b">>,
                    <<"u", ".", "v", ".", "w">>,
                    <<"a", ".", "c", ".", "e", ".", "f">>,
                    <<"a", ".", "x", ".", "y">>, <<"g", ".", "h">>}}

MoveArgs ==
    {[origin |-> <<"a", ".", "b">>, dest |-> <<"a", ".", "e">>, cascade |-> FALSE],
     [origin |-> <<"a", ".", "b">>, dest |-> <<"a", ".", "e", ".", "f">>,
      cascade |-> FALSE],
     [origin |-> <<"a", ".", "b">>, dest |-> <<"b">>, cascade |-> FALSE],
     [origin |-> <<"n">>, dest |-> <<"a", ".", "d">>, cascade |-> FALSE],
     [origin |-> <<"n">>, dest |-> <<"z">>, cascade |-> TRUE],
     [origin |-> <<"z">>, dest |-> <<"x">>, cascade |-> FALSE],
     [origin |-> <<"n">>, dest |-> <<"s", ".", "t">>, cascade |-> FALSE],
     [origin |-> <<".", "n">>, dest |-> <<"z">>, cascade |-> FALSE]}

\* changeFieldDefinition(model, path, newDefinition)
RedefineArgs ==
    {[path |-> <<"n">>, def |-> NumberWithDefault],
     [path |-> <<"a", ".", "b">>, def |-> StringWithDefault],
     [path |-> <<"a", ".", "c", ".", "e", ".", "f">>, def |-> StringWithDefault],
     [path |-> <<"s">>, def |-> Leaf],
     [path |-> <<"z">>, def |-> Leaf],
     [path |-> <<"n", ".">>, def |-> Leaf]}

\* the arguments of changeFieldType after the path
TypeArgs(newType, defaultValue, required, keepValues) ==
    [newType |-> newType, defaultValue |-> defaultValue, required |-> required,
     keepValues |-> keepValues]

NoArgs == TypeArgs(Undef, Undef, FALSE, FALSE)

\* changeFieldType(model, path, newType, defaultValue, required, keepValues);
\* with keepValues false a defaultValue is given
RetypeArgs ==
    {[path |-> <<"n">>, arg |-> TypeArgs(Fn("Number"), Val("7"), TRUE, FALSE)],
     [path |-> <<"n">>, arg |-> TypeArgs(Fn("Mixed"), Undef, FALSE, TRUE)],
     [path |-> <<"q">>, arg |-> TypeArgs(Fn("Number"), Undef, FALSE, TRUE)],
     [path |-> <<"a", ".", "b">>,
      arg |-> TypeArgs(Fn("String"), Val("d"), FALSE, FALSE)],
     [path |-> <<"a", ".", "c", ".", "e", ".", "f">>,
      arg |-> TypeArgs(Fn("String"), Val("d"), FALSE, FALSE)],
     [path |-> <<"z">>, arg |-> TypeArgs(Fn("String"), Val("d"), FALSE, FALSE)],
     [path |-> <<"n", ".">>, arg |-> TypeArgs(Fn("String"), Undef, FALSE, TRUE)]}

NoCall ==
    [op |-> "none", path |-> <<>>, dest |-> <<>>, def |-> Undef,
     cascade |-> FALSE, arg |-> NoArgs, schema |-> EmptySchema, docs |-> <<>>,
     saves |-> {}]

NotApplied == [fn |-> "none", path |-> <<>>, schema |-> EmptySchema,
               valid |-> FALSE, lsp |-> ResolveThrew, doc |-> Undef,
               moved |-> Undef]

Init ==
    /\ schema = NewSchema(DeclaredDefinition)
    /\ docs \in {Collection(n) : n \in 0..MaxDocs}
    /\ stack = <<>>
    /\ ret = NoRet
    /\ saves = {}
    /\ issued = 0
    /\ outcome = NoRet
    /\ faulted = FALSE
    /\ call = NoCall
    /\ prev = [call |-> NoCall, outcome |-> NoRet]
    /\ nops = 0
    /\ pure = NotApplied

\* the mutable state as one record, and the state an action leaves
M == [schema |-> schema, docs |-> docs, stack |-> stack, ret |-> ret,
      saves |-> saves, issued |-> issued, outcome |-> outcome,
      faulted |-> faulted]

\* the state a public call starts from
Fresh == [M EXCEPT !.issued = 0, !.outcome = NoRet, !.faulted = FALSE]

\* a promise settles once: a later resolve or reject has no effect
Become(m) ==
    /\ schema' = m.schema
    /\ docs' = m.docs
    /\ saves' = m.saves
    /\ issued' = m.issued
    /\ stack' = m.stack
    /\ faulted' = m.faulted
    /\ IF m.stack = <<>> /\ m.ret.st # "none"
       THEN /\ ret' = NoRet
            /\ outcome' = IF m.outcome.st = "none" THEN m.ret ELSE m.outcome
       ELSE ret' = m.ret /\ outcome' = m.outcome

Idle == stack = <<>> /\ nops < MaxOps

Started(op, path, dest, def, cascade, arg) ==
    /\ call' = [op |-> op, path |-> path, dest |-> dest, def |-> def,
                cascade |-> cascade, arg |-> arg, schema |-> schema,
                docs |-> docs, saves |-> saves]
    /\ prev' = [call |-> call, outcome |-> outcome]
    /\ nops' = nops + 1
    /\ UNCHANGED pure

CallAdd ==
    \E x \in AddArgs :
        /\ Idle
        /\ Become(addSchemaField(Fresh, x.path, x.def))
        /\ Started("Add", x.path, <<>>, x.def, FALSE, NoArgs)

CallRemove ==
    \E x \in RemoveArgs :
        /\ Idle
        /\ Become(removeSchemaField(Fresh, x.path, x.cascade))
        /\ Started("Remove", x.path, <<>>, Undef, x.cascade, NoArgs)

CallMove ==
    \E x \in MoveArgs :
        /\ Idle
        /\ Become(moveSchemaField(Fresh, x.origin, x.dest, x.cascade))
        /\ Started("Move", x.origin, x.dest, Undef, x.cascade, NoArgs)

CallRedefine ==
    \E x \in RedefineArgs :
        /\ Idle
        /\ Become(changeFieldDefinition(Fresh, x.path, x.def))
        /\ Started("Redefine", x.path, <<>>, x.def, FALSE, NoArgs)

CallRetype ==
    \E x \in RetypeArgs :
        /\ Idle
        /\ Become(changeFieldType(Fresh, x.path, x.arg.newType, x.arg.defaultValue,
                                  x.arg.required, x.arg.keepValues))
        /\ Started("Retype", x.path, <<>>, Undef, FALSE, x.arg)

Running == stack # <<>> /\ ret = NoRet

\* a settled promise runs the callbacks of its caller
RunCallbacks ==
    /\ stack # <<>>
    /\ ret # NoRet
    /\ Become(Deliver(M))
    /\ UNCHANGED <<call, prev, nops, pure>>

\* the bulk update the innermost call waits for
PendingUpdate == Running /\ Top(M).pc = "update"

\* the value of the update: $unset in removeSchemaField (no value), $set of
\* defaultValue in changeFieldType
UpdateVal == IF Top(M).fn = "changeFieldType" THEN Top(M).def ELSE Undef

\* a store call of the operation answered with an error
Faulted(m) == [m EXCEPT !.faulted = TRUE]

\* an update of the path inside the owner tree
UpdatePathLocal(lsp) == lsp.path

\* lines 423 and 631: the path of the $unset or $set is fullPath
UpdatePath(lsp) == lsp.fullPath

StoreUpdateOk ==
    /\ PendingUpdate
    /\ LET lsp == Top(M).lsp
           updated == [M EXCEPT !.docs = UpdateMany(docs, lsp.pathToLast,
                                                   UpdatePath(lsp), UpdateVal)]
       IN  /\ ~UpdateFails(docs, lsp.pathToLast, UpdatePath(lsp), UpdateVal)
           /\ IF Top(M).fn = "changeFieldType"
              THEN Become(Settle(updated, Resolved("Field type changed")))
              ELSE Become(removeSchemaFieldThen(updated))
    /\ UNCHANGED <<call, prev, nops, pure>>

\* a rejection handler that edits the Schema as the fulfilment handler does
UpdateRejectedAfterEdit(m) ==
    [Settle(Faulted(m), Rejected("StoreError", <<>>))
        EXCEPT !.schema = removeSchemaFieldThen(m).schema]

\* lines 461 and 638: .catch(error => reject(error))
UpdateRejected(m) == Settle(Faulted(m), Rejected("StoreError", <<>>))

StoreUpdateFail ==
    /\ PendingUpdate
    /\ Become(UpdateRejected(M))
    /\ UNCHANGED <<call, prev, nops, pure>>

PendingFind == Running /\ Top(M).fn = "updateDefaults" /\ Top(M).pc = "find"

\* a test of line 781 that no number of documents passes
NoneToSaveNever(numToSave) == FALSE

\* line 781: if (numToSave == 0)
NoneToSave(numToSave) == numToSave = 0

\* the callback of model.find in updateDefaults
StoreFindOk ==
    /\ PendingFind
    /\ LET f == Top(M)
           numToSave == Len(docs)
       IN  IF NoneToSave(numToSave) THEN Become(Settle(M, Resolved("")))
           ELSE Become(
                    [SetTop(M, [f EXCEPT !.pc = "save", !.numToSave = numToSave])
                        EXCEPT !.saves = @ \cup
                                   {[op |-> nops, doc |-> i,
                                     writes |-> SaveWrites(schema, docs[i], f.path)] :
                                        i \in 1..numToSave},
                               !.issued = @ + numToSave])
    /\ UNCHANGED <<call, prev, nops, pure>>

StoreFindFail ==
    /\ PendingFind
    /\ Become(Settle(Faulted(M), Rejected("StoreError", <<>>)))
    /\ UNCHANGED <<call, prev, nops, pure>>

\* the updateDefaults call whose callback a save still reaches
Saving(sv) ==
    /\ stack # <<>>
    /\ Top(M).fn = "updateDefaults"
    /\ Top(M).pc = "save"
    /\ sv.op = nops

\* lines 793-795: numSaved++; if (numSaved == numToSave)
AllSaved(f) == f.numSaved + 1 = f.numToSave

\* the callback of doc.save in updateDefaults, without an error
StoreSaveOk ==
    \E sv \in saves :
        /\ ret = NoRet
        /\ LET m1 == [M EXCEPT !.saves = @ \ {sv},
                               !.docs[sv.doc] = ApplyWrites(@, sv.writes)]
               f == Top(M)
           IN  IF ~Saving(sv) THEN Become(m1)
               ELSE IF AllSaved(f)
                    THEN Become(Settle(m1, Resolved("")))
               ELSE Become(SetTop(m1, [f EXCEPT !.numSaved = @ + 1]))
        /\ UNCHANGED <<call, prev, nops, pure>>

\* the callback of doc.save in updateDefaults, with an error
StoreSaveFail ==
    \E sv \in saves :
        /\ ret = NoRet
        /\ LET m1 == [M EXCEPT !.saves = @ \ {sv}]
           IN  IF ~Saving(sv) THEN Become(IF sv.op = nops THEN Faulted(m1) ELSE m1)
               ELSE Become(Settle(Faulted(m1), Rejected("StoreError", <<>>)))
        /\ UNCHANGED <<call, prev, nops, pure>>

Next ==
    \/ CallAdd
    \/ CallRemove
    \/ CallMove
    \/ CallRedefine
    \/ CallRetype
    \/ RunCallbacks
    \/ StoreUpdateOk
    \/ StoreUpdateFail
    \/ StoreFindOk
    \/ StoreFindFail
    \/ StoreSaveOk
    \/ StoreSaveFail

Spec == Init /\ [][Next]_vars

(***************************************************************************)
(* The utilities called directly: a second specification draws a path and  *)
(* a schema and applies pathIsValid or getLastSchemaAndPaths to them.       *)
(***************************************************************************)
RECURSIVE StringsOver(_, _)
StringsOver(alphabet, n) ==
    IF n = 0 THEN {<<>>}
    ELSE LET shorter == StringsOver(alphabet, n - 1)
         IN  shorter \cup {<<c>> \o s : c \in alphabet,
                                         s \in {t \in shorter : Len(t) = n - 1}}

\* any string of at most MaxPathLen characters
ArbitraryPaths == StringsOver({"a", "c", Dot, "$"}, MaxPathLen)

SegmentNames == {"a", "b", "c", "e", "f", "s", "t", "x"}

\* the paths of one to MaxSegments named segments
SegmentPaths ==
    {Join([i \in DOMAIN names |-> K(names[i])], <<Dot>>) :
        names \in UNION {[1..n -> SegmentNames] : n \in 1..MaxSegments}}

\* paths that name the array of primitives p: [String] of the declaration
PrimitiveArrayPaths ==
    {<<"p">>, <<"p", ".", "x">>, <<"p", ".", "x", ".", "y">>,
     <<"a", ".", "p", ".", "x">>}

\* a declaration whose arrays of subdocuments sit inside nested objects:
\*   { e: {type: String},
\*     s: { a: [{ b: {type: String}, t: { c: [{ x: {type: String} }] } }] } }
NestedDefinition ==
    Obj((K("e") :> Leaf) @@
        (K("s") :> Obj(K("a") :> Arr(<<Obj(
            (K("b") :> Leaf) @@
            (K("t") :> Obj(K("c") :> Arr(<<Obj(K("x") :> Leaf)>>))))>>))))

FixtureSchemas ==
    {NewSchema(DeclaredDefinition), NewSchema(NestedDefinition),
     NewSchema(EmptyObj)}

\* moveForAllSubArraysRecursive: the document after the copy, or the
\* TypeError of calling forEach on a value that has none
RECURSIVE moveForAllSubArraysRecursive(_, _, _, _)
moveForAllSubArraysRecursive(doc, subPaths, lastDestPath, currentPathIndex) ==
    IF currentPathIndex = Len(subPaths) - 1
    THEN ObjectPathSet(doc, lastDestPath,
                       ObjectPathGet(doc, subPaths[currentPathIndex + 1]))
    ELSE LET array == ObjectPathGet(doc, subPaths[currentPathIndex + 1])
             subDocs == [i \in DOMAIN array.f |->
                            moveForAllSubArraysRecursive(
                                array.f[i], subPaths, lastDestPath,
                                currentPathIndex + 1)]
         IN  IF array.k # "arr" THEN Throw
             ELSE IF \E i \in DOMAIN subDocs : subDocs[i].k = "throw" THEN Throw
             ELSE ObjectPathSet(doc, subPaths[currentPathIndex + 1], Arr(subDocs))

moveForAllSubArrays(doc, subPaths, lastDestPath) ==
    moveForAllSubArraysRecursive(doc, subPaths, lastDestPath, 0)

\* a document saved before the arrays were declared
BareDocument == Obj(K("n") :> Val("n3"))

\* a document whose one element of `a' holds no array `c'
ShallowDocument ==
    Obj((K("n") :> Val("n4")) @@ (K("a") :> Arr(<<Obj(K("b") :> Val("b4"))>>)))

\* the documents the copy step is applied to
CopyInputs == {FullDocument, SparseDocument, BareDocument, ShallowDocument}

\* the local path of the destination of the copy: a field `z' next to origin
CopyDest == K("z")

InitPure ==
    /\ schema = NewSchema(DeclaredDefinition)
    /\ docs = Collection(1)
    /\ stack = <<>>
    /\ ret = NoRet
    /\ saves = {}
    /\ issued = 0
    /\ outcome = NoRet
    /\ faulted = FALSE
    /\ call = NoCall
    /\ prev = [call |-> NoCall, outcome |-> NoRet]
    /\ nops = 0
    /\ pure \in {[NotApplied EXCEPT !.path = p, !.schema = s] :
                    p \in ArbitraryPaths \cup SegmentPaths \cup PrimitiveArrayPaths,
                    s \in FixtureSchemas}

ApplyPathIsValid ==
    /\ pure.fn = "none"
    /\ pure' = [pure EXCEPT !.fn = "pathIsValid", !.valid = pathIsValid(pure.path)]
    /\ UNCHANGED <<schema, docs, stack, ret, saves, issued, outcome, faulted, call, prev,
                   nops>>

ApplyGetLastSchemaAndPaths ==
    /\ pure.fn = "none"
    /\ pure' = [pure EXCEPT !.fn = "getLastSchemaAndPaths",
                            !.lsp = getLastSchemaAndPaths(pure.schema, pure.path)]
    /\ UNCHANGED <<schema, docs, stack, ret, saves, issued, outcome, faulted, call, prev,
                   nops>>

\* the copy step of moveSchemaField (line 526) for an origin that exists in
\* the declared schema
ApplyMoveForAllSubArrays ==
    /\ pure.fn = "none"
    /\ pure.schema = NewSchema(DeclaredDefinition)
    /\ pathIsValid(pure.path)
    /\ LET origin == getLastSchemaAndPaths(pure.schema, pure.path)
       IN  /\ origin.ok
           /\ origin.exists
           /\ \E doc \in CopyInputs :
                  pure' = [pure EXCEPT
                              !.fn = "moveForAllSubArrays",
                              !.lsp = origin,
                              !.doc = doc,
                              !.moved = moveForAllSubArrays(doc, origin.subPaths,
                                                            CopyDest)]
    /\ UNCHANGED <<schema, docs, stack, ret, saves, issued, outcome, faulted, call, prev,
                   nops>>

NextPure ==
    \/ ApplyPathIsValid
    \/ ApplyGetLastSchemaAndPaths
    \/ ApplyMoveForAllSubArrays

SpecPure == InitPure /\ [][NextPure]_vars

(***************************************************************************)
(* src/index.js: the copy of the module in which moveSchemaField has no    *)
(* test of its paths and its executor goes on to the move.  A third        *)
(* specification calls that moveSchemaField, with the addSchemaField, the   *)
(* removeSchemaField and the resolver of the same file.                    *)
(***************************************************************************)
\* index.js 279-314: the recursive call receives currentPath + ".$[]" as
\* currentFullPath, and fullPath is currentFullPath + "." + currentPath
RECURSIVE getLastSchemaAndPathsRecursive_index(_, _, _, _, _, _)
getLastSchemaAndPathsRecursive_index(currentSchema, ref, path, currentPathIndex, currentFullPath, subPaths) ==
    LET acc == AccumulatePath(currentSchema, path, currentPathIndex,
                              path[currentPathIndex + 1])
        currentPath == acc.path
        type == SchemaPath(currentSchema, currentPath)
    IN  IF type.instance = "Array" /\ acc.index < Len(path) - 1
        THEN IF type.schema = <<>> THEN ResolveThrew
             ELSE getLastSchemaAndPathsRecursive_index(
                      type.schema[1], Append(ref, currentPath), path,
                      acc.index + 1, currentPath \o ArrayMarker,
                      Append(subPaths, currentPath))
        ELSE [ok |-> TRUE,
              exists |-> ExistsInTree(currentSchema, currentPath),
              schema |-> currentSchema,
              ref |-> ref,
              path |-> currentPath,
              fullPath |-> IF currentFullPath # <<>>
                           THEN currentFullPath \o <<Dot>> \o currentPath
                           ELSE currentPath,
              pathToLast |-> ReplaceFirst(currentFullPath, ArrayMarker, <<>>),
              subPaths |-> Append(subPaths, currentPath)]

getLastSchemaAndPaths_index(s, path) ==
    getLastSchemaAndPathsRecursive_index(s, <<>>, Split(path), 0, <<>>, <<>>)

\* index.js 14-34: addSchemaField, whose executor settles the promise itself;
\* the Schema afterwards and the settlement
addSchemaField_index(s, path, fieldDefinition) ==
    LET lastSchemaAndPaths == getLastSchemaAndPaths_index(s, path)
        addQuery == ObjectPathSet(EmptyObj, lastSchemaAndPaths.path, fieldDefinition)
        added == SchemaAdd(SchemaAt(s, lastSchemaAndPaths.ref), addQuery)
        loop == SetInArrayTrees(SchemaPut(s, lastSchemaAndPaths.ref, added), <<>>,
                                lastSchemaAndPaths.subPaths, fieldDefinition)
    IN  IF ~lastSchemaAndPaths.ok
        THEN [schema |-> s, ret |-> Rejected("TypeError", <<>>)]
        ELSE IF lastSchemaAndPaths.exists
             THEN [schema |-> s, ret |-> Rejected("The field to add already exists", path)]
        ELSE IF Threw(added) THEN [schema |-> s, ret |-> Rejected("Error", <<>>)]
        ELSE IF loop.threw
             THEN [schema |-> loop.schema, ret |-> Rejected("TypeError", <<>>)]
        ELSE [schema |-> loop.schema, ret |-> Resolved("Field added successfully")]

\* index.js 58-66: the callback of removeSchemaField that runs when
\* model.update succeeded; the Schema afterwards
removeSchemaFieldThen_index(s, lsp) ==
    LET s1 == SchemaRemove(s, lsp.fullPath)
        owner1 == SchemaRemove(SchemaAt(s1, lsp.ref), lsp.path)
    IN  IF Threw(s1) THEN s
        ELSE IF Threw(owner1) THEN s1
        ELSE DelInArrayTrees(SchemaPut(s1, lsp.ref, owner1), <<>>, lsp.subPaths)

\* index.js 222-242: moveForAllSubdocuments, the same text as
\* moveForAllSubArrays
moveForAllSubdocuments(doc, subPaths, lastDestPath) ==
    moveForAllSubArraysRecursive(doc, subPaths, lastDestPath, 0)

\* what doc.save() writes of the document `doc' that model.find handed over
\* and the callback changed, after doc.markModified(path): the defaults
\* applied to the fields of the document itself and the value of the marked
\* path; a value set in doc._doc behind the back of the document is written
\* only under a marked path
SaveWritesOf(s, stored, doc, path) ==
    {[path |-> p, val |-> ObjectPathGet(Hydrate(s, stored), p)] :
        p \in {q \in DOMAIN s.paths :
                  /\ s.paths[q].schema = <<>>
                  /\ ObjectPathGet(stored, q).k = "undef"
                  /\ ObjectPathGet(Hydrate(s, stored), q).k # "undef"}}
    \cup (IF ObjectPathGet(doc, path).k = "undef" \/ Len(path) = 0 THEN {}
          ELSE {[path |-> path, val |-> ObjectPathGet(doc, path)]})

\* the pending call of moveSchemaField: the resolution of origin and the
\* local path of dest are variables of its executor
MoveFrame(origin, lspOrigin, lastDestPath) ==
    [Frame("moveSchemaField", "find", origin, Undef, FALSE)
        EXCEPT !.lsp = lspOrigin] @@ [lastDestPath |-> lastDestPath]

\* a promise rejected in the executor of moveSchemaField
MoveRejected(m, r) == [m EXCEPT !.ret = r]

\* index.js 88-141: the executor of moveSchemaField and, as addSchemaField
\* settles in its own executor, the callback that issues model.find({})
moveSchemaField_index(m, origin, dest) ==
    LET lastSchemaAndPathsOrigin == getLastSchemaAndPaths_index(m.schema, origin)
        lastSchemaAndPathsDest == getLastSchemaAndPaths_index(m.schema, dest)
        fieldDefinition == ObjectPathGet(lastSchemaAndPathsOrigin.schema.tree,
                                         lastSchemaAndPathsOrigin.path)
        added == addSchemaField_index(m.schema, dest, fieldDefinition)
        differ == "Origin and destination paths must refer to the same subdocument"
    IN  IF ~lastSchemaAndPathsOrigin.ok \/ ~lastSchemaAndPathsDest.ok
        THEN MoveRejected(m, Rejected("TypeError", <<>>))
        ELSE IF ~lastSchemaAndPathsOrigin.exists
             THEN MoveRejected(m, Rejected("Origin path does not exists", origin))
        ELSE IF lastSchemaAndPathsDest.exists
             THEN MoveRejected(m, Rejected("Destination path already exists", dest))
        ELSE IF Len(lastSchemaAndPathsOrigin.subPaths)
                    # Len(lastSchemaAndPathsDest.subPaths)
             THEN MoveRejected(m, Rejected(differ, <<>>))
        ELSE IF Front(lastSchemaAndPathsOrigin.subPaths)
                    # Front(lastSchemaAndPathsDest.subPaths)
             THEN MoveRejected(m, Rejected(differ, <<>>))
        ELSE IF added.ret.st # "ok"
             THEN MoveRejected([m EXCEPT !.schema = added.schema], added.ret)
        ELSE [Push([m EXCEPT !.schema = added.schema],
                   MoveFrame(origin, lastSchemaAndPathsOrigin,
                             lastSchemaAndPathsDest.path))
                 EXCEPT !.issued = @ + 1]

CallMove_index ==
    \E x \in MoveArgs :
        /\ Idle
        /\ Become(moveSchemaField_index(Fresh, x.origin, x.dest))
        /\ Started("Move", x.origin, x.dest, Undef, FALSE, NoArgs)

\* the error of a doc.save() of the move
SaveError == Rejected("StoreError", <<"save">>)

MovePending(pc) ==
    /\ stack # <<>>
    /\ Top(M).fn = "moveSchemaField"
    /\ Top(M).pc = pc

\* the promise of moveSchemaField is settled or not, and nothing it waits for
\* is left: the call is over
MoveOver(m) == [m EXCEPT !.stack = Front(@), !.ret = NoRet]

\* index.js 117-136: the callback of model.find({}).exec().  The forEach
\* moves and saves one document after the other; a TypeError of the move
\* ends it, rejects the promise and leaves the saves already issued on their
\* way.  With no document nothing is issued and nothing settles the promise.
StoreFindOk_index ==
    /\ MovePending("find")
    /\ LET f == Top(M)
           numToUpdate == Len(docs)
           moved == [i \in 1..numToUpdate |->
                        moveForAllSubdocuments(Hydrate(schema, docs[i]),
                                               f.lsp.subPaths, f.lastDestPath)]
           reached == {i \in 1..numToUpdate :
                          \A j \in 1..i : moved[j].k # "throw"}
           threw == Cardinality(reached) < numToUpdate
           issuing == [SetTop(M, [f EXCEPT !.pc = "save",
                                           !.numToSave = numToUpdate])
                          EXCEPT !.saves = @ \cup
                                     {[op |-> nops, doc |-> i,
                                       writes |-> SaveWritesOf(schema, docs[i], moved[i],
                                                               f.lsp.subPaths[1])] :
                                          i \in reached},
                                 !.issued = @ + Cardinality(reached)]
           rejected == SettleEarly(issuing, Rejected("TypeError", <<>>))
       IN  IF numToUpdate = 0
           THEN Become(SetTop(M, [f EXCEPT !.pc = "pending"]))
           ELSE IF ~threw THEN Become(issuing)
           ELSE IF reached = {} THEN Become(MoveOver(rejected))
           ELSE Become(rejected)
    /\ UNCHANGED <<call, prev, nops, pure>>

\* index.js 137: .catch(error => reject(error))
StoreFindFail_index ==
    /\ MovePending("find")
    /\ Become(MoveOver(SettleEarly(Faulted(M), Rejected("StoreError", <<>>))))
    /\ UNCHANGED <<call, prev, nops, pure>>

\* index.js 127-133: numUpdated++ and, when every save has called back,
\* removeSchemaField(model, origin).then(resolve("Field moved successfully")):
\* removeSchemaField is called, which issues model.update unless origin is no
\* more, and resolve is called at once, as the argument of then
AfterSave_index(m) ==
    LET f == Top(m)
        counted == SetTop(m, [f EXCEPT !.numSaved = @ + 1])
        lastSchemaAndPaths == getLastSchemaAndPaths_index(m.schema, f.path)
        moved == SettleEarly(counted, Resolved("Field moved successfully"))
    IN  IF f.numSaved + 1 = f.numToSave
        THEN (IF ~lastSchemaAndPaths.ok \/ ~lastSchemaAndPaths.exists
              THEN MoveOver(moved)
              ELSE [SetTop(moved, [Top(moved) EXCEPT !.pc = "update",
                                                     !.lsp = lastSchemaAndPaths])
                       EXCEPT !.issued = @ + 1])
        ELSE IF \E sv \in m.saves : sv.op = nops THEN counted
        ELSE MoveOver(counted)

\* the callback of doc.save in moveSchemaField, without an error
StoreSaveOk_index ==
    \E sv \in saves :
        /\ MovePending("save")
        /\ Become(AfterSave_index(
               [M EXCEPT !.saves = @ \ {sv},
                         !.docs[sv.doc] = ApplyWrites(@, sv.writes)]))
        /\ UNCHANGED <<call, prev, nops, pure>>

\* the callback of doc.save in moveSchemaField, with an error: index.js 126,
\* if (err) reject(err), and the callback goes on
StoreSaveFail_index ==
    \E sv \in saves :
        /\ MovePending("save")
        /\ Become(AfterSave_index(
               SettleEarly(Faulted([M EXCEPT !.saves = @ \ {sv}]), SaveError)))
        /\ UNCHANGED <<call, prev, nops, pure>>

\* the bulk update of removeSchemaField answered without an error
StoreUpdateOk_index ==
    /\ MovePending("update")
    /\ LET lsp == Top(M).lsp
       IN  /\ ~UpdateFails(docs, lsp.pathToLast, lsp.fullPath, Undef)
           /\ Become(MoveOver(
                  [M EXCEPT !.docs = UpdateMany(docs, lsp.pathToLast,
                                                lsp.fullPath, Undef),
                            !.schema = removeSchemaFieldThen_index(schema, lsp)]))
    /\ UNCHANGED <<call, prev, nops, pure>>

\* the bulk update answered with an error: removeSchemaField rejects, and the
\* reject of index.js 132 comes after the resolve
StoreUpdateFail_index ==
    /\ MovePending("update")
    /\ Become(MoveOver(SettleEarly(Faulted(M), Rejected("StoreError", <<>>))))
    /\ UNCHANGED <<call, prev, nops, pure>>

NextIndex ==
    \/ CallMove_index
    \/ StoreFindOk_index
    \/ StoreFindFail_index
    \/ StoreSaveOk_index
    \/ StoreSaveFail_index
    \/ StoreUpdateOk_index
    \/ StoreUpdateFail_index

SpecIndex == Init /\ [][NextIndex]_vars

(***************************************************************************)
(* What a path means in a declaration, read off the definition tree alone. *)
(***************************************************************************)
\* the node the segments name, going into the element of every array on the
\* way
RECURSIVE NodeAt(_, _)
NodeAt(node, segs) ==
    IF Len(segs) = 0 THEN node
    ELSE LET inner == IF node.k = "arr" /\ Len(node.f) = 1 THEN node.f[1]
                      ELSE node
         IN  IF inner.k = "obj" /\ segs[1] \in DOMAIN inner.f
             THEN NodeAt(inner.f[segs[1]], Tail(segs))
             ELSE Undef

IsArrayOfSubdocuments(node) ==
    /\ node.k = "arr"
    /\ Len(node.f) = 1
    /\ node.f[1].k = "obj"
    /\ TypeKey \notin DOMAIN node.f[1].f
    /\ DOMAIN node.f[1].f # {}

\* the positions of the segments, before the last, that name an array of
\* subdocuments
Boundaries(tree, segs) ==
    {i \in 1..(Len(segs) - 1) :
        IsArrayOfSubdocuments(NodeAt(tree, SubSeq(segs, 1, i)))}

Least(S) == CHOOSE i \in S : \A j \in S : i <= j

Greatest(S) == CHOOSE i \in S : \A j \in S : j <= i

\* the segments from position `from' on, cut after every boundary
RECURSIVE HopsFrom(_, _, _)
HopsFrom(segs, B, from) ==
    LET ahead == {i \in B : i >= from}
    IN  IF ahead = {} THEN <<Join(SubSeq(segs, from, Len(segs)), <<Dot>>)>>
        ELSE <<Join(SubSeq(segs, from, Least(ahead)), <<Dot>>)>>
                 \o HopsFrom(segs, B, Least(ahead) + 1)

\* the hops joined with "$[]" between them
RECURSIVE WithMarkers(_)
WithMarkers(hops) ==
    IF Len(hops) = 1 THEN hops[1]
    ELSE hops[1] \o <<Dot>> \o AllPositional \o <<Dot>> \o WithMarkers(Tail(hops))

\* the element definition of the innermost array the segments cross
OwnerTree(tree, segs) ==
    LET B == Boundaries(tree, segs)
    IN  IF B = {} THEN tree
        ELSE NodeAt(tree, SubSeq(segs, 1, Greatest(B))).f[1]

Resolved1 == pure.fn = "getLastSchemaAndPaths" /\ pure.lsp.ok

\* C1: resolving a valid logical path that crosses k arrays of subdocuments
\* strictly before its last segment returns k + 1 hops (the segments cut
\* after every crossed array), the element tree of the innermost crossed array
\* as owner tree (the root tree when k = 0), and the hops joined with the
\* "$[]" marker as query path; in a declaration where `a' is an array of
\* subdocuments holding `b', the path a.b gives the hops [a, b], the query
\* path a.$[].b and the container path a.
ResolverHops ==
    (Resolved1 /\ pure.path # <<>> /\ pathIsValid(pure.path)) =>
        LET segs == Split(pure.path)
            tree == pure.schema.tree
            B == Boundaries(tree, segs)
            r == pure.lsp
        IN  /\ Len(r.subPaths) = Cardinality(B) + 1
            /\ r.subPaths = HopsFrom(segs, B, 1)
            /\ r.schema.tree = OwnerTree(tree, segs)
            /\ r.fullPath = WithMarkers(r.subPaths)
            /\ r.path = Last(r.subPaths)
            /\ (/\ IsArrayOfSubdocuments(NodeAt(tree, <<K("a")>>))
                /\ pure.path = <<"a", ".", "b">>)
               => /\ r.subPaths = <<K("a"), K("b")>>
                  /\ r.fullPath = <<"a", ".", "$", "[", "]", ".", "b">>
                  /\ r.pathToLast = K("a")

\* a path through three arrays of subdocuments has been resolved
ResolvedThroughThreeArrays ==
    /\ Resolved1
    /\ pure.path = <<"a", ".", "c", ".", "e", ".", "f">>
    /\ Len(pure.lsp.subPaths) = 4
    /\ Cardinality(Boundaries(pure.schema.tree, Split(pure.path))) = 3

\* whether the segments name a defined node of the tree, by key membership
RECURSIVE DefinedIn(_, _)
DefinedIn(node, segs) ==
    IF Len(segs) = 0 THEN TRUE
    ELSE IF node.k = "obj" /\ segs[1] \in DOMAIN node.f
         THEN DefinedIn(node.f[segs[1]], Tail(segs))
    ELSE IF node.k = "arr" /\ segs[1] = <<"0">> /\ Len(node.f) >= 1
         THEN DefinedIn(node.f[1], Tail(segs))
    ELSE FALSE

\* the segments of a hop; the empty hop has none and names the tree itself
HopSegments(hop) == IF hop = <<>> THEN <<>> ELSE Split(hop)

\* C2: a resolution reports exists = true exactly when the last hop names a
\* defined node of the owner tree the same resolution returns.
ExistsIffDefinedInOwnerTree ==
    Resolved1 =>
        (pure.lsp.exists <=>
            DefinedIn(pure.lsp.schema.tree,
                      HopSegments(Last(pure.lsp.subPaths))))

\* resolutions behind an array of subdocuments have reported both answers:
\* here a nested object of the element tree exists
ResolvedExistingNestedObject ==
    /\ Resolved1
    /\ pure.path = <<"s", ".", "a", ".", "t">>
    /\ pure.lsp.exists
    /\ Len(pure.lsp.subPaths) = 2

\* C3: pathIsValid(path) is false exactly when the path starts with ".", ends
\* with ".", contains ".." or contains "$", and true otherwise; calling it
\* changes neither the schema nor the documents.
PathIsValidExactly ==
    pure.fn = "pathIsValid" =>
        LET path == pure.path
            n == Len(path)
        IN  /\ pure.valid <=>
                ~(\/ (n >= 1 /\ path[1] = Dot)
                  \/ (n >= 1 /\ path[n] = Dot)
                  \/ \E i \in 1..(n - 1) : path[i] = Dot /\ path[i + 1] = Dot
                  \/ \E i \in 1..n : path[i] = "$")
            /\ schema = NewSchema(DeclaredDefinition)
            /\ docs = Collection(1)

\* a path whose only fault is its final "." has been found invalid
TrailingDotFoundInvalid ==
    /\ pure.fn = "pathIsValid"
    /\ pure.path = <<"a", ".">>
    /\ ~pure.valid

(***************************************************************************)
(* The public operations, seen from the call that started them.            *)
(***************************************************************************)
\* the last public call is over
Settled(op) == call.op = op /\ stack = <<>> /\ outcome.st # "none"

\* the resolution of a path in the schema the last call started from
Before(path) == getLastSchemaAndPaths(call.schema, path)

\* the tree copy of array level j of a resolution: the root tree for j = 0,
\* the tree of the element Schema behind the first j hops otherwise
LevelTree(s, hops, j) == SchemaAt(s, SubSeq(hops, 1, j)).tree

\* the segments that lead from level j to the field
SegmentsFrom(hops, j) ==
    Split(Join(SubSeq(hops, j + 1, Len(hops)), <<Dot>>))

\* whether a value holds the field the segments name, in any element of the
\* arrays on the way
RECURSIVE Holds(_, _)
Holds(val, segs) ==
    IF Len(segs) = 0 THEN TRUE
    ELSE IF val.k = "arr"
         THEN \E i \in DOMAIN val.f : Holds(val.f[i], segs)
    ELSE IF val.k = "obj" /\ segs[1] \in DOMAIN val.f
         THEN Holds(val.f[segs[1]], Tail(segs))
    ELSE FALSE

\* C4: after Add(path, definition) resolved, the definition is at the local
\* path in the owner tree and in the tree copy of every ancestor array level
\* (the root tree and the tree of every element Schema on the way).
AddedInEveryCopy ==
    (Settled("Add") /\ outcome.st = "ok") =>
        LET hops == Before(call.path).subPaths
        IN  \A j \in 0..(Len(hops) - 1) :
                NodeAt(LevelTree(schema, hops, j), SegmentsFrom(hops, j))
                    = call.def

\* a field has been added behind three arrays of subdocuments
AddedBehindThreeArrays ==
    /\ Settled("Add")
    /\ outcome.st = "ok"
    /\ call.path = <<"a", ".", "c", ".", "e", ".", "x">>
    /\ Len(Before(call.path).subPaths) = 4

\* C5: after Remove(path) resolved for an existing field, the field is in
\* neither the owner tree nor the tree copy of any ancestor array level, and
\* no document holds a value for it in any array element.
RemovedEverywhere ==
    (Settled("Remove") /\ outcome.st = "ok") =>
        LET hops == Before(call.path).subPaths
        IN  /\ \A j \in 0..(Len(hops) - 1) :
                   NodeAt(LevelTree(schema, hops, j), SegmentsFrom(hops, j))
                       = Undef
            /\ \A i \in DOMAIN docs : ~Holds(docs[i], Split(call.path))

\* C6: Add(p, d) followed immediately by Remove(p), both resolved, leaves
\* the schema tree as it was before the Add.
AddThenRemoveRestoresTree ==
    (/\ Settled("Remove")
     /\ outcome.st = "ok"
     /\ ~call.cascade
     /\ prev.call.op = "Add"
     /\ prev.outcome.st = "ok"
     /\ prev.call.path = call.path)
    => schema.tree = prev.call.schema.tree

\* whether the path names an existing field of the schema the call started
\* from
ExistedBefore(path) == Before(path).ok /\ Before(path).exists

MissingBefore(path) == Before(path).ok /\ ~Before(path).exists

\* the last call left the schema alone, issued no store call, and the
\* documents are the ones it found (when no save of an earlier call was
\* still on its way)
NothingDone ==
    /\ issued = 0
    /\ schema = call.schema
    /\ call.saves = {} => docs = call.docs

\* C7: Add with an invalid path or the path of an existing field, and Remove
\* with an invalid path or the path of no field, are rejected, issue no store
\* call and leave the schema (every copy) and every document unchanged.
RejectedBeforeAnyMutation ==
    (\/ /\ call.op = "Add"
        /\ ~pathIsValid(call.path) \/ ExistedBefore(call.path)
     \/ /\ call.op = "Remove"
        /\ ~pathIsValid(call.path) \/ MissingBefore(call.path))
    => /\ stack = <<>>
       /\ outcome.st = "err"
       /\ NothingDone

\* Remove of a path that names no field has been rejected after an earlier
\* operation changed the schema
RemoveOfMissingFieldRejected ==
    /\ Settled("Remove")
    /\ call.path = <<"a", ".", "x">>
    /\ call.schema # NewSchema(DeclaredDefinition)
    /\ outcome.st = "err"
    /\ MissingBefore(call.path)

\* origin and dest name places in the same subdocument: as many hops, and
\* the same hops before the last
SameSubdocument(origin, dest) ==
    /\ Len(Before(origin).subPaths) = Len(Before(dest).subPaths)
    /\ Front(Before(origin).subPaths) = Front(Before(dest).subPaths)

MoveAllowed ==
    /\ call.op = "Move"
    /\ pathIsValid(call.path)
    /\ pathIsValid(call.dest)
    /\ ExistedBefore(call.path)
    /\ MissingBefore(call.dest)
    /\ SameSubdocument(call.path, call.dest)

\* C8: Move(origin, dest) resolves whenever both paths are valid, origin
\* exists, dest does not, and both resolve to the same subdocument.
AllowedMoveSucceeds ==
    (MoveAllowed /\ stack = <<>>) => outcome.st = "ok"

CrossLevel ==
    /\ ExistedBefore(call.path)
    /\ MissingBefore(call.dest)
    /\ ~SameSubdocument(call.path, call.dest)

\* C9: Move(origin, dest) is rejected without a schema edit or a document
\* write when origin does not exist, dest exists or the two paths resolve to
\* different subdocuments; this last case is reported as "Origin and
\* destination paths must refer to the same subdocument".
ForbiddenMoveRejected ==
    (/\ call.op = "Move"
     /\ pathIsValid(call.path)
     /\ pathIsValid(call.dest)
     /\ \/ MissingBefore(call.path)
        \/ ExistedBefore(call.dest)
        \/ CrossLevel)
    => /\ stack = <<>>
       /\ outcome.st = "err"
       /\ NothingDone
       /\ CrossLevel =>
              outcome.msg = "Origin and destination paths must refer to the same subdocument"

\* the values of a field in a document: the value itself, or for every array
\* on the way the values in its elements, in order
RECURSIVE ValuesAt(_, _)
ValuesAt(val, hops) ==
    IF Len(hops) = 1 THEN ObjectPathGet(val, hops[1])
    ELSE LET array == ObjectPathGet(val, hops[1])
         IN  IF array.k = "arr"
             THEN Arr([i \in DOMAIN array.f |-> ValuesAt(array.f[i], Tail(hops))])
             ELSE Undef

\* C10: after Move(origin, dest) every document, in every array element the
\* path reaches, has at dest the value it had at origin, and holds no value
\* at origin.
MovePreservesValues ==
    (MoveAllowed /\ stack = <<>>) =>
        \A i \in DOMAIN docs :
            /\ ValuesAt(docs[i], Before(call.dest).subPaths)
                   = ValuesAt(call.docs[i], Before(call.path).subPaths)
            /\ ~Holds(docs[i], Split(call.path))

\* object-path and the Schema are never asked for an assignment the model
\* does not cover
NoNamedArrayProperty ==
    /\ schema.tree.k = "obj"
    /\ \A i \in DOMAIN docs : docs[i].k = "obj"

(***************************************************************************)
(* Removal with removeSubdocumentIfEmpty (cascade).                        *)
(***************************************************************************)
\* the hops of the path of the last call, in the schema it started from
CallHops == Before(call.path).subPaths

\* the tree that owns the field of the last call, as it is now
OwnerTreeNow == LevelTree(schema, CallHops, Len(CallHops) - 1)

\* the segments of the field of the last call inside its owner tree
LocalSegments == SegmentsFrom(CallHops, Len(CallHops) - 1)

\* the subdocuments of the owner tree above the field that are left empty
EmptyAncestors ==
    {j \in 1..(Len(LocalSegments) - 1) :
        LET node == NodeAt(OwnerTreeNow, SubSeq(LocalSegments, 1, j))
        IN  node.k = "obj" /\ NumKeys(node) = 0}

\* C11: after Remove(path, cascade = true) resolved, no subdocument above the
\* field is left empty in the owner tree: the emptied parent is removed, and
\* so is every further ancestor that became empty.
CascadeRemovesEmptiedAncestors ==
    (Settled("Remove") /\ outcome.st = "ok" /\ call.cascade) =>
        EmptyAncestors = {}

\* the Schema still declares the arrays the hops go through, each with its
\* element Schema
RECURSIVE DeclaresArrays(_, _)
DeclaresArrays(s, arrays) ==
    IF Len(arrays) = 0 THEN TRUE
    ELSE /\ ObjectPathGet(s.tree, arrays[1]).k = "arr"
         /\ arrays[1] \in DOMAIN s.paths
         /\ s.paths[arrays[1]].schema # <<>>
         /\ DeclaresArrays(s.paths[arrays[1]].schema[1], Tail(arrays))

\* the arrays a value holds along the hops: the lengths of the arrays met,
\* element by element
RECURSIVE ArraysHeld(_, _)
ArraysHeld(val, arrays) ==
    IF Len(arrays) = 0 THEN <<>>
    ELSE LET array == ObjectPathGet(val, arrays[1])
         IN  IF array.k # "arr" THEN <<"none">>
             ELSE <<[i \in DOMAIN array.f |-> ArraysHeld(array.f[i], Tail(arrays))]>>

\* C12: a Remove(path, cascade = true) never removes an array the path goes
\* through: at every moment of the call the Schema declares each enclosing
\* array, the root tree holds it, and every document holds the arrays it held
\* when the call started.
CascadeStopsAtArrays ==
    (call.op = "Remove" /\ call.cascade /\ Before(call.path).ok) =>
        LET arrays == Front(CallHops)
        IN  /\ DeclaresArrays(schema, arrays)
            /\ Len(arrays) > 0 =>
                   NodeAt(schema.tree, Split(Join(arrays, <<Dot>>))).k = "arr"
            /\ \A i \in DOMAIN docs :
                   ArraysHeld(docs[i], arrays) = ArraysHeld(call.docs[i], arrays)

\* the only field of the element subdocument of an array has been removed
\* with cascade, and the element subdocument is left without fields
LastFieldOfElementRemoved ==
    /\ Settled("Remove")
    /\ outcome.st = "ok"
    /\ call.cascade
    /\ call.path = <<"g", ".", "h">>
    /\ NumKeys(OwnerTreeNow) = 0
    /\ \E i \in DOMAIN docs : ArraysHeld(docs[i], <<K("g")>>) = <<<<(<<>>)>>>>

(***************************************************************************)
(* Removal without cascade: what it leaves alone.                          *)
(***************************************************************************)
\* a definition tree without the node the segments name, going into the
\* element of every array on the way
RECURSIVE Without(_, _)
Without(node, segs) ==
    IF Len(segs) = 0 THEN node
    ELSE IF node.k = "arr" /\ Len(node.f) = 1
         THEN Arr(<<Without(node.f[1], segs)>>)
    ELSE IF node.k = "obj" /\ segs[1] \in DOMAIN node.f
         THEN (IF Len(segs) = 1 THEN Obj(MapDel(node.f, segs[1]))
               ELSE Obj(MapSet(node.f, segs[1],
                               Without(node.f[segs[1]], Tail(segs)))))
    ELSE node

\* the registered path p is the path t or lies under it
IsUnder(p, t) ==
    \/ p = t
    \/ Len(p) > Len(t) /\ SubSeq(p, 1, Len(t) + 1) = t \o <<Dot>>

\* two Schemas differ at most in the field the hops lead to: every tree on
\* the way agrees outside the field, and so does every registered path
RECURSIVE SameOutside(_, _, _)
SameOutside(now, before, hops) ==
    /\ Without(now.tree, Split(Join(hops, <<Dot>>)))
           = Without(before.tree, Split(Join(hops, <<Dot>>)))
    /\ \A p \in DOMAIN before.paths :
           \/ Len(hops) = 1 /\ IsUnder(p, hops[1])
           \/ /\ p \in DOMAIN now.paths
              /\ IF Len(hops) > 1 /\ p = hops[1]
                 THEN /\ now.paths[p].schema # <<>>
                      /\ SameOutside(now.paths[p].schema[1],
                                     before.paths[p].schema[1], Tail(hops))
                 ELSE now.paths[p] = before.paths[p]

\* C13: after Remove(path) without cascade resolved, the Schema differs from
\* the one the call found at most in the target field: every other node of
\* every tree is kept, an emptied parent subdocument included, which stays as
\* an empty object.
RemoveLeavesTheRestAlone ==
    (Settled("Remove") /\ outcome.st = "ok" /\ ~call.cascade) =>
        SameOutside(schema, call.schema, CallHops)

\* the only field of a subdocument has been removed without cascade, and the
\* subdocument is an empty object in the owner tree
EmptiedParentKept ==
    /\ Settled("Remove")
    /\ outcome.st = "ok"
    /\ ~call.cascade
    /\ Len(LocalSegments) = 2
    /\ NodeAt(OwnerTreeNow, Front(LocalSegments)) = EmptyObj
    /\ NodeAt(call.schema.tree, Split(call.path)) # Undef

(***************************************************************************)
(* changeFieldType (Retype) and changeFieldDefinition (Redefine).          *)
(***************************************************************************)
\* a store call of the last public call has not been answered
MigrationPending ==
    \/ stack # <<>>
    \/ \E sv \in saves : sv.op = nops

\* C14: Retype reports its terminal outcome only after the migration branch
\* it chose has finished: once the promise of a Retype is settled, neither
\* the bulk update (keepValues false) nor the find and the saves of
\* updateDefaults (keepValues true) are still pending.
RetypeSettlesAfterMigration ==
    (call.op = "Retype" /\ outcome.st # "none") => ~MigrationPending

\* every element the hops reach in a value holds d at the field
RECURSIVE AllSetTo(_, _, _)
AllSetTo(val, hops, d) ==
    IF Len(hops) = 1 THEN ObjectPathGet(val, hops[1]) = d
    ELSE LET array == ObjectPathGet(val, hops[1])
         IN  array.k = "arr" =>
                 \A i \in DOMAIN array.f : AllSetTo(array.f[i], Tail(hops), d)

\* C15: when a Retype that succeeded is over and the store answered every
\* call without an error: with keepValues false it issued one store call, the
\* bulk update, and every document holds defaultValue at the field in every
\* array element the path reaches; with keepValues true it issued only the
\* find and the saves of updateDefaults, and every document holds at the field
\* the values it held when the call started.
RetypeMigratesValues ==
    (/\ call.op = "Retype"
     /\ outcome.st = "ok"
     /\ ~MigrationPending
     /\ ~faulted
     /\ call.saves = {})
    => IF call.arg.keepValues
       THEN /\ issued = 1 + Len(docs)
            /\ \A i \in DOMAIN docs :
                   ValuesAt(docs[i], CallHops) = ValuesAt(call.docs[i], CallHops)
       ELSE /\ issued = 1
            /\ \A i \in DOMAIN docs :
                   AllSetTo(docs[i], CallHops, call.arg.defaultValue)

\* the node of the field of the last call in its owner tree, now and when the
\* call started
NodeNow == NodeAt(OwnerTreeNow, LocalSegments)

NodeBefore ==
    NodeAt(LevelTree(call.schema, CallHops, Len(CallHops) - 1), LocalSegments)

\* the options a Retype sets or deletes
RetypedKeys == {TypeKey, DefaultKey, RequiredKey}

\* C16: after Retype(path, newType, defaultValue, required) succeeded on an
\* existing field, the node at path in the owner Schema has type newType (in
\* the tree and as the registered type), default equal to defaultValue when
\* one is given and no default otherwise, required exactly when required is
\* true, and every other option of the node it replaced.
RetypedNodeIsRevised ==
    (call.op = "Retype" /\ outcome.st = "ok") =>
        /\ NodeNow.k = "obj"
        /\ TypeKey \in DOMAIN NodeNow.f
        /\ NodeNow.f[TypeKey] = call.arg.newType
        /\ SchemaPath(SchemaAt(schema, Front(CallHops)), Last(CallHops)).instance
               = call.arg.newType.v
        /\ IF call.arg.defaultValue = Undef
           THEN DefaultKey \notin DOMAIN NodeNow.f
           ELSE /\ DefaultKey \in DOMAIN NodeNow.f
                /\ NodeNow.f[DefaultKey] = call.arg.defaultValue
        /\ call.arg.required <=> RequiredKey \in DOMAIN NodeNow.f
        /\ DOMAIN NodeNow.f \ RetypedKeys = DOMAIN NodeBefore.f \ RetypedKeys
        /\ \A key \in DOMAIN NodeBefore.f \ RetypedKeys :
               NodeNow.f[key] = NodeBefore.f[key]

\* a field declared with a default and a minimum has been retyped without a
\* default: the default is gone and the minimum is kept
RetypedWithoutDefault ==
    /\ call.op = "Retype"
    /\ outcome.st = "ok"
    /\ call.arg.defaultValue = Undef
    /\ DefaultKey \in DOMAIN NodeBefore.f
    /\ DefaultKey \notin DOMAIN NodeNow.f
    /\ MinKey \in DOMAIN NodeNow.f

\* every element the hops reach in a value holds at the field one of the
\* given values
RECURSIVE AllAmong(_, _, _)
AllAmong(val, hops, allowed) ==
    IF Len(hops) = 1 THEN ObjectPathGet(val, hops[1]) \in allowed
    ELSE LET array == ObjectPathGet(val, hops[1])
         IN  array.k = "arr" =>
                 \A i \in DOMAIN array.f :
                     AllAmong(array.f[i], Tail(hops), allowed)

\* the default a definition declares, if any
DefaultOf(def) ==
    IF def.k = "obj" /\ DefaultKey \in DOMAIN def.f THEN def.f[DefaultKey]
    ELSE Undef

\* C17: Redefine(path, newDefinition) removes the field to completion and
\* only then adds it: the Add starts after the update of the Remove was
\* answered, and when the Redefine has succeeded the node at path equals
\* newDefinition in the owner tree and in the tree copy of every ancestor
\* array level, and no document holds a value stored before the call: every
\* element the path reaches has no value or the default of newDefinition
\* (stated for a call that started with no save of an earlier call on its way).
RedefineReplacesField ==
    /\ (call.op = "Redefine" /\ Len(stack) > 1 /\ stack[2].fn = "addSchemaField")
           => issued >= 1
    /\ (Settled("Redefine") /\ outcome.st = "ok" /\ call.saves = {}) =>
           /\ \A j \in 0..(Len(CallHops) - 1) :
                  NodeAt(LevelTree(schema, CallHops, j), SegmentsFrom(CallHops, j))
                      = call.def
           /\ \A i \in DOMAIN docs :
                  AllAmong(docs[i], CallHops, {Undef, DefaultOf(call.def)})

\* C18: a Redefine or a Retype of a valid path that names no existing field
\* is rejected with "The path does not point to an existing field", and from
\* the call on, while the code after the reject runs and when it is over, the
\* Schema and the documents are the ones the call found and no store call has
\* been issued.
MissingFieldLeftAlone ==
    (/\ call.op \in {"Redefine", "Retype"}
     /\ pathIsValid(call.path)
     /\ MissingBefore(call.path))
    => /\ outcome.st = "err"
       /\ outcome.msg = "The path does not point to an existing field"
       /\ NothingDone

\* a Redefine and then a Retype of a field the schema does not have were
\* both rejected
RedefineAndRetypeOfMissingFieldRejected ==
    /\ Settled("Retype")
    /\ outcome.st = "err"
    /\ pathIsValid(call.path)
    /\ MissingBefore(call.path)
    /\ prev.call.op = "Redefine"
    /\ prev.outcome.st = "err"
    /\ prev.call.path = call.path
    /\ schema = NewSchema(DeclaredDefinition)

(***************************************************************************)
(* Termination of the public operations.                                   *)
(***************************************************************************)
\* the callbacks of a settled promise are waiting to run
CallbacksQueued == stack # <<>> /\ ret # NoRet

\* The event loop runs the callbacks that are queued, and the store answers
\* every call it was sent.  An update, a find or a save that is pending stops
\* being pending with either answer, so weak fairness of the answer with an
\* error only rules out a call that is never answered; it forces no error.
FairSpec ==
    /\ Spec
    /\ []<>~CallbacksQueued
    /\ WF_vars(StoreUpdateFail)
    /\ WF_vars(StoreFindFail)
    /\ WF_vars(StoreSaveFail)

\* the promise of the last public call is pending
Pending == call.op # "none" /\ outcome.st = "none"

\* C19: when the store answers every call, the promise of every invocation of
\* Add, Remove, Move, Redefine and Retype is eventually settled: it does not
\* stay pending forever.
EveryCallSettles == Pending ~> ~Pending

\* the Add of the last call found no empty parent to remove first: its only
\* store calls are the find and the saves of updateDefaults, after the edit
AddsDirectly ==
    LET lastPaths == Front(LocalSegments)
    IN  ~(/\ Len(lastPaths) > 0
          /\ IsEmptySubdocument(
                 NodeAt(LevelTree(call.schema, CallHops, Len(CallHops) - 1),
                        lastPaths)))

\* C20: when a store call of the migration of an Add, a Remove, a Redefine
\* or a Retype was answered with an error, the promise of the call is never
\* resolved with success, it is rejected once the call is over, and the edit
\* of the Schema is not undone: after an Add whose find or save failed the
\* definition is still in the owner tree.
StoreFailureIsReported ==
    (call.op \in {"Add", "Remove", "Redefine", "Retype"} /\ faulted) =>
        /\ outcome.st # "ok"
        /\ ~MigrationPending => outcome.st = "err"
        /\ (Settled("Add") /\ AddsDirectly) => NodeNow = call.def

(***************************************************************************)
(* updateDefaults: the rewrite of the existing documents.                  *)
(***************************************************************************)
\* C21: when an Add has resolved with success, the find of updateDefaults
\* and one save for every document of the collection have been issued, every
\* one of these saves has been answered and none with an error; and when the
\* definition declares a default, every element the path reaches in every
\* document holds that default at the field (stated for a call that started
\* with no save of an earlier call on its way).
AddResolvesAfterEverySave ==
    (Settled("Add") /\ outcome.st = "ok") =>
        /\ \A sv \in saves : sv.op # nops
        /\ ~faulted
        /\ issued >= 1 + Len(docs)
        /\ (call.saves = {} /\ DefaultOf(call.def) # Undef) =>
               \A i \in DOMAIN docs :
                   AllSetTo(docs[i], CallHops, DefaultOf(call.def))

\* C22: when the find of updateDefaults is answered without an error on a
\* collection with no document, the promise of updateDefaults is resolved in
\* that step, no save is issued or on its way, and no document is written.
EmptyCollectionResolvesUnwritten ==
    [][(PendingFind /\ Len(docs) = 0 /\ ~faulted') =>
           /\ stack' = Front(stack)
           /\ ret'.st = "ok"
           /\ issued' = issued
           /\ saves' = {}
           /\ docs' = docs]_vars

\* updateDefaults has resolved on a collection with no document
DefaultsUpdatedOnEmptyCollection ==
    /\ Len(docs) = 0
    /\ stack # <<>>
    /\ Top(M).fn = "addSchemaAux"
    /\ ret.st = "ok"
    /\ issued = 1
    /\ saves = {}

(***************************************************************************)
(* The copies of the element trees in the trees of the ancestors.          *)
(***************************************************************************)
\* in the Schema s and in every element Schema below it, the element tree
\* written in the tree under an array of subdocuments is the tree of that
\* array's element Schema
RECURSIVE CopiesAgree(_)
CopiesAgree(s) ==
    \A p \in DOMAIN s.paths :
        s.paths[p].schema # <<>> =>
            LET copy == ObjectPathGet(s.tree, p)
                element == s.paths[p].schema[1]
            IN  /\ copy.k = "arr"
                /\ Len(copy.f) > 0
                /\ copy.f[1] = element.tree
                /\ CopiesAgree(element)

\* the calls so far were Add, Remove, Redefine or Retype, resolved and over
OnlySuccessfulEdits ==
    /\ stack = <<>>
    /\ saves = {}
    /\ \A c \in {[call |-> call, outcome |-> outcome], prev} :
           \/ c.call.op = "none"
           \/ /\ c.call.op \in {"Add", "Remove", "Redefine", "Retype"}
              /\ c.outcome.st = "ok"

\* C23: after any sequence of Add, Remove, Redefine and Retype calls that all
\* resolved, for every array of subdocuments, at every level, the element
\* tree recorded in the tree of the Schema that declares the array equals the
\* tree of the array's own element Schema.
SchemaCopiesConsistent == OnlySuccessfulEdits => CopiesAgree(schema)

(***************************************************************************)
(* Add under an empty subdocument.                                         *)
(***************************************************************************)
\* the segments of the path of the last call
CallSegments == Split(call.path)

\* the parent of the field of the last call was declared as {} when the call
\* started
ParentWasPlaceholder ==
    /\ pathIsValid(call.path)
    /\ Len(CallSegments) > 1
    /\ NodeAt(call.schema.tree, Front(CallSegments)) = EmptyObj

\* C24: an Add whose parent was declared as an empty subdocument, at the
\* root, under a nested object or inside the elements of an array, and none
\* of whose store calls failed, resolves, and the definition is then in the
\* owner tree at the path.
AddUnderPlaceholderSucceeds ==
    (Settled("Add") /\ ParentWasPlaceholder /\ ~faulted) =>
        /\ outcome.st = "ok"
        /\ NodeNow = call.def

(***************************************************************************)
(* Remove: the bulk update and the edit of the Schema.                     *)
(***************************************************************************)
\* the Remove of the last call waits for the answer to its own bulk update
OwnUpdatePending ==
    /\ call.op = "Remove"
    /\ Len(stack) = 1
    /\ PendingUpdate

\* C25: in a Remove the Schema is as the call found it while the bulk update
\* of the call is not answered, and that update is then the one store call
\* issued; the Schema changes only in a step that answers a pending bulk
\* update without an error; and when the bulk update of the call is answered
\* with an error, the Remove is rejected in that step with the Schema the
\* call found.
RemoveEditsAfterUpdate ==
    /\ [](OwnUpdatePending => (schema = call.schema /\ issued = 1))
    /\ [][/\ (call'.op = "Remove" /\ schema' # schema) =>
                 (PendingUpdate /\ ~faulted' /\ call' = call)
          /\ (OwnUpdatePending /\ faulted') =>
                 /\ stack' = <<>>
                 /\ outcome'.st = "err"
                 /\ schema' = call.schema]_vars

\* the bulk update of a Remove of an existing field failed
RemoveRejectedByStore ==
    /\ Settled("Remove")
    /\ faulted
    /\ outcome.st = "err"
    /\ issued = 1
    /\ Before(call.path).exists
    /\ schema = call.schema

(***************************************************************************)
(* Move: the order of the insertion, the saves and the removal.            *)
(***************************************************************************)
\* C26: when an allowed Move is over and no store call failed, the
\* destination is declared in the Schema, no save of the call is on its way,
\* and the removal of origin has been issued: at least its bulk update is
\* among the store calls of the call, and origin is declared no more.
MoveInsertsThenRemovesOnce ==
    (MoveAllowed /\ stack = <<>> /\ ~faulted) =>
        /\ NodeAt(schema.tree, Split(call.dest)) # Undef
        /\ \A sv \in saves : sv.op # nops
        /\ issued >= 1
        /\ NodeAt(schema.tree, Split(call.path)) = Undef

(***************************************************************************)
(* Remove: the filter and the $unset of the bulk update.                   *)
(***************************************************************************)
\* the value holds an array that is not empty at the path, through the
\* elements of every array on the way
RECURSIVE HasElementsAt(_, _)
HasElementsAt(val, segs) ==
    IF Len(segs) = 0 THEN val.k = "arr" /\ Len(val.f) > 0
    ELSE IF val.k = "arr"
         THEN \E i \in DOMAIN val.f : HasElementsAt(val.f[i], segs)
    ELSE /\ val.k = "obj"
         /\ segs[1] \in DOMAIN val.f
         /\ HasElementsAt(val.f[segs[1]], Tail(segs))

\* the value without the field at the path, "$[]" standing for every element
RECURSIVE UnsetAt(_, _)
UnsetAt(val, segs) ==
    IF segs[1] = AllPositional
    THEN Arr([i \in DOMAIN val.f |-> UnsetAt(val.f[i], Tail(segs))])
    ELSE IF val.k # "obj" \/ segs[1] \notin DOMAIN val.f THEN val
    ELSE IF Len(segs) = 1 THEN Obj(MapDel(val.f, segs[1]))
    ELSE Obj(MapSet(val.f, segs[1], UnsetAt(val.f[segs[1]], Tail(segs))))

\* C27: a Remove has issued one store call while its bulk update is pending,
\* and the step that answers that update without an error leaves every
\* document as it was, except that the field at fullPath is unset in the
\* documents the filter selects: all of them when the field is inside no
\* array (pathToLast is empty), otherwise those with an array that is not
\* empty at pathToLast.  No further store call is issued by the step unless
\* the cascade goes on to the parent.
RemoveUnsetsQueryPath ==
    [][(OwnUpdatePending /\ stack' # stack /\ ~faulted') =>
           LET location == Before(call.path)
               selected(doc) ==
                   \/ Len(location.subPaths) = 1
                   \/ HasElementsAt(doc, Split(location.pathToLast))
           IN  /\ issued = 1
               /\ (Len(location.subPaths) = 1) <=> (location.pathToLast = <<>>)
               /\ \A i \in DOMAIN docs :
                      docs'[i] = IF selected(docs[i])
                                 THEN UnsetAt(docs[i], Split(location.fullPath))
                                 ELSE docs[i]
               /\ issued' = IF stack' = <<>> THEN 1 ELSE 2
               /\ ~call.cascade => stack' = <<>>]_vars

\* a Remove of a field inside an array has unset it in the document that
\* holds elements and has left the document without elements alone
UnsetWhereElements ==
    /\ Settled("Remove")
    /\ outcome.st = "ok"
    /\ issued = 1
    /\ Len(CallHops) = 2
    /\ call.saves = {}
    /\ Len(docs) = 2
    /\ docs[1] # call.docs[1]
    /\ docs[1] = UnsetAt(call.docs[1], Split(Before(call.path).fullPath))
    /\ docs[2] = call.docs[2]

(***************************************************************************)
(* The resolver and the arrays of primitives.                              *)
(***************************************************************************)
\* a segment before the last names an array that is not an array of
\* subdocuments
ThroughPrimitives ==
    \E i \in 1..(Len(Split(pure.path)) - 1) :
        LET node == NodeAt(pure.schema.tree, SubSeq(Split(pure.path), 1, i))
        IN  node.k = "arr" /\ ~IsArrayOfSubdocuments(node)

\* C29: the resolution of a path with a segment, before the last, that names
\* an array of primitives returns a result, with one hop for the array and
\* what follows it and with exists false; it does not fail.
PrimitiveArrayIsNoBoundary ==
    (/\ pure.fn = "getLastSchemaAndPaths"
     /\ pathIsValid(pure.path)
     /\ ThroughPrimitives) =>
        /\ pure.lsp.ok
        /\ ~pure.lsp.exists
        /\ Len(pure.lsp.subPaths)
               = 1 + Cardinality(Boundaries(pure.schema.tree, Split(pure.path)))

\* C30: the pathToLast of a resolution is the hops before the last joined
\* with '.', at every number of arrays crossed: it holds no "$[]", and it is
\* the empty string when no array is crossed.
PathToLastJoinsHops ==
    (Resolved1 /\ pathIsValid(pure.path)) =>
        LET hops == pure.lsp.subPaths
        IN  /\ pure.lsp.pathToLast = Join(Front(hops), <<Dot>>)
            /\ ~Includes(pure.lsp.pathToLast, <<"$">>)
            /\ Len(hops) = 1 => pure.lsp.pathToLast = <<>>

(***************************************************************************)
(* The copy step of Move.                                                  *)
(***************************************************************************)
\* the traversal of the hops before the last meets, somewhere in the
\* document, a value that is an empty array or no array at all
RECURSIVE MeetsNoElements(_, _)
MeetsNoElements(doc, hops) ==
    /\ Len(hops) > 1
    /\ LET array == ObjectPathGet(doc, hops[1])
       IN  \/ array.k # "arr"
           \/ Len(array.f) = 0
           \/ \E i \in DOMAIN array.f : MeetsNoElements(array.f[i], Tail(hops))

\* the traversal reaches no element at the last hop
RECURSIVE ReachesNoField(_, _)
ReachesNoField(doc, hops) ==
    /\ Len(hops) > 1
    /\ LET array == ObjectPathGet(doc, hops[1])
       IN  \/ array.k # "arr"
           \/ \A i \in DOMAIN array.f : ReachesNoField(array.f[i], Tail(hops))

\* C28: moveForAllSubArrays applied to a document in which some traversed
\* hop holds an empty array or no array raises no error, and a document in
\* which the traversal reaches no element of the last array is returned as
\* it was.
CopySkipsMissingElements ==
    (pure.fn = "moveForAllSubArrays"
        /\ MeetsNoElements(pure.doc, pure.lsp.subPaths)) =>
        /\ pure.moved.k # "throw"
        /\ ReachesNoField(pure.doc, pure.lsp.subPaths) => pure.moved = pure.doc

(***************************************************************************)
(* The path updateDefaults marks as modified after an Add.                 *)
(***************************************************************************)
\* C31: while the updateDefaults of an Add of a field inside one or more
\* arrays is running, the path it marks as modified on every document is the
\* first hop of the resolved path, the outermost array of the root document,
\* and not the path of the field inside the innermost element tree.
AddMarksFirstHop ==
    (/\ call.op = "Add"
     /\ stack # <<>>
     /\ Top(M).fn = "updateDefaults"
     /\ Len(CallHops) > 1) =>
        /\ Top(M).path = CallHops[1]
        /\ Top(M).path # Last(CallHops)

(***************************************************************************)
(* The resolver keeps every segment of the path.                           *)
(***************************************************************************)
\* the string without any occurrence of the pattern
RECURSIVE EraseAll(_, _)
EraseAll(str, pattern) ==
    IF ~Includes(str, pattern) THEN str
    ELSE EraseAll(ReplaceFirst(str, pattern, <<>>), pattern)

\* C34: for every valid path whose resolution returns, the hops joined with
\* '.' are the path, and fullPath with every ".$[]" erased is the path: no
\* segment is dropped, repeated or moved, whatever the number of arrays.
ResolutionKeepsThePath ==
    (Resolved1 /\ pure.path # <<>> /\ pathIsValid(pure.path)) =>
        /\ Join(pure.lsp.subPaths, <<Dot>>) = pure.path
        /\ EraseAll(pure.lsp.fullPath, ArrayMarker) = pure.path

\* a path to a field that is not declared has been resolved through three
\* arrays
ResolvedMissingBehindThreeArrays ==
    /\ Resolved1
    /\ pure.path = <<"a", ".", "c", ".", "e", ".", "x">>
    /\ ~pure.lsp.exists
    /\ pure.lsp.subPaths = <<K("a"), K("c"), K("e"), K("x")>>
    /\ Includes(pure.lsp.fullPath, ArrayMarker)

(***************************************************************************)
(* Move as src/index.js has it: what a reported success and a failed save  *)
(* leave behind.                                                           *)
(***************************************************************************)

\* the hops of the origin of the last call, resolved by index.js in the
\* schema the call found
OriginHops == getLastSchemaAndPaths_index(call.schema, call.path).subPaths

\* C32: once Move(origin, dest) has reported success, with any number of
\* documents stored, the schema has no field at origin and has at dest the
\* definition that origin had when the call was made.
MoveSuccessMeansSchemaMoved ==
    (call.op = "Move" /\ outcome.st = "ok") =>
        /\ NodeAt(schema.tree, Split(call.path)) = Undef
        /\ NodeAt(schema.tree, Split(call.dest))
               = NodeAt(call.schema.tree, Split(call.path))

\* C33: once a save of the copy pass of Move has failed, origin stays
\* declared in the schema and every document keeps at origin the values it
\* had when the call was made.
FailedSaveKeepsOrigin ==
    (call.op = "Move" /\ outcome = SaveError) =>
        /\ NodeAt(schema.tree, Split(call.path)) # Undef
        /\ \A i \in DOMAIN docs :
               ValuesAt(docs[i], OriginHops) = ValuesAt(call.docs[i], OriginHops)

====
